---- MODULE Spec2Model ----
(***************************************************************************)
(* A model of the CVIA recruiting backend: the search-memory store         *)
(* (SearchMemoryService), the public job search (JobSearchService) and the *)
(* free-plan usage control (UsageService / JobService.generateApplication).*)
(*                                                                         *)
(* Text is a sequence of one-character strings, so that normalisation,     *)
(* substring tests and splitting are computed as the code computes them.   *)
(* Characters outside ASCII are named: "U_ACUTE" is U+00DA, "u_acute" is   *)
(* U+00FA, "ACUTE" is the combining mark U+0301, "TAB" is U+0009.          *)
(*                                                                         *)
(* Weights are fixed-point numbers in units of 0.05 (1.0 is 20 units), the *)
(* finest step the learning code uses.                                     *)
(***************************************************************************)
EXTENDS Integers, Sequences, FiniteSets, TLC

VARIABLES
    \* ---- SearchMemoryService: data/search-memory.json and its requests
    memFile,      \* the store file: [exists, buckets]
    memPc,        \* per request: where the handler is suspended
    memReq,       \* per request: the call's arguments
    memDb,        \* per request: the MemoryDb object its readDb returned
    memClock,     \* logical time, one tick per call (bounded by MaxMemCalls); new Date() reads it
    memOut,       \* per request: the profile its getProfile call returned
    \* ---- JobSearchService.searchPublicJobs: one retrieval
    env,          \* process.env: which API keys are set
    sPc,          \* position of searchPublicJobs
    sArgs,        \* its arguments
    tsTask,       \* the searchTheirStackJobs promise
    csTask,       \* the searchCoreSignalJobs promise
    ddg,          \* the searchDuckDuckGo promises, one per query
    sOut,         \* what searchPublicJobs resolved with
    \* ---- UsageService: data/usage.json and generateApplication requests
    usageFile,    \* the usage file: userId -> freeUses
    gPc,          \* per request: position of generateApplication
    gReq,         \* per request: the dto (userId, plan)
    gDb,          \* per request: the db object / usage record it holds
    completed,    \* per userId: generateApplication calls with plan 'free' that returned
    gCalls,       \* calls started so far (bounded by MaxGenCalls)
    \* ---- JobService.matchJobsByCv: one request at a time
    mPc,          \* position of matchJobsByCv
    mReq,         \* the dto and what the request has computed so far
    mOut,         \* what the last request ended with
    mCalls,       \* calls started so far (bounded by MaxMatchCalls)
    \* ---- one call of a function of JobSearchService, on its own
    fnIn,         \* the arguments of the call
    fnOut,        \* what the call returned
    \* ---- RecruitingRagService in JSON-file mode, its calls one after another
    ragFile,      \* the file of match cases and career paths
    ragOut        \* the last call: what it was for and what it returned

memVars == <<memFile, memPc, memReq, memDb, memClock, memOut>>
searchVars == <<env, sPc, sArgs, tsTask, csTask, ddg, sOut>>
usageVars == <<usageFile, gPc, gReq, gDb, completed, gCalls>>
matchVars == <<mPc, mReq, mOut, mCalls>>
fnVars == <<fnIn, fnOut>>
ragVars == <<ragFile, ragOut>>
vars == <<memVars, searchVars, usageVars, matchVars, fnVars, ragVars>>

-----------------------------------------------------------------------------
(* Text *)

Min(a, b) == IF a <= b THEN a ELSE b
Max(a, b) == IF a >= b THEN a ELSE b

UpperChars == <<"A","B","C","D","E","F","G","H","I","J","K","L","M","N","O","P","Q","R","S","T","U","V","W","X","Y","Z","U_ACUTE">>
LowerChars == <<"a","b","c","d","e","f","g","h","i","j","k","l","m","n","o","p","q","r","s","t","u","v","w","x","y","z","u_acute">>

\* String.prototype.toLowerCase, one character
toLowerCase(c) ==
    IF \E i \in 1..Len(UpperChars) : UpperChars[i] = c
    THEN LowerChars[CHOOSE i \in 1..Len(UpperChars) : UpperChars[i] = c]
    ELSE c

\* String.prototype.normalize('NFD'), one character: base letter, then its mark
nfd(c) == IF c = "u_acute" THEN <<"u", "ACUTE">> ELSE <<c>>

\* the class [\u0300-\u036f]
IsCombining(c) == c = "ACUTE"

\* \s
IsSpace(c) == c \in {" ", "TAB"}

RECURSIVE FlatMap(_, _)
FlatMap(F(_), s) == IF s = <<>> THEN <<>> ELSE F(Head(s)) \o FlatMap(F, Tail(s))

Lowered(s) == [i \in 1..Len(s) |-> toLowerCase(s[i])]

\* a text without composed characters is its own decomposition
Decomposed(s) == IF \A i \in 1..Len(s) : nfd(s[i]) = <<s[i]>> THEN s ELSE FlatMap(nfd, s)

\* .replace(/[\u0300-\u036f]/g, '')
StripMarks(s) == SelectSeq(s, LAMBDA c : ~IsCombining(c))

\* .replace(/\s+/g, ' '): of every run of white space the last character is
\* kept, as a space
CollapseSpaces(s) ==
    LET marked == [i \in 1..Len(s) |->
                      [c |-> IF IsSpace(s[i]) THEN " " ELSE s[i],
                       drop |-> IsSpace(s[i]) /\ i < Len(s) /\ IsSpace(s[i + 1])]]
        kept == SelectSeq(marked, LAMBDA m : ~m.drop)
    IN  [i \in 1..Len(kept) |-> kept[i].c]

\* .trim()
RECURSIVE TrimLeft(_)
TrimLeft(s) == IF s # <<>> /\ IsSpace(Head(s)) THEN TrimLeft(Tail(s)) ELSE s

RECURSIVE TrimRight(_)
TrimRight(s) ==
    IF s # <<>> /\ IsSpace(s[Len(s)]) THEN TrimRight(SubSeq(s, 1, Len(s) - 1)) ELSE s

trim(s) == TrimRight(TrimLeft(s))

\* SearchMemoryService.normalize / JobSearchService.normalize:
\* toLowerCase, normalize('NFD'), strip the marks, collapse white space, trim
normalize(s) == trim(CollapseSpaces(StripMarks(Decomposed(Lowered(s)))))

\* String.prototype.includes
includes(h, n) ==
    \E i \in 0..(Len(h) - Len(n)) : SubSeq(h, i + 1, i + Len(n)) = n

\* Array.prototype.join
RECURSIVE join(_, _)
join(xs, sep) ==
    IF xs = <<>> THEN <<>>
    ELSE IF Len(xs) = 1 THEN xs[1]
    ELSE xs[1] \o sep \o join(Tail(xs), sep)

\* Array.prototype.slice(0, n)
slice0(xs, n) == SubSeq(xs, 1, Min(n, Len(xs)))

Range(f) == {f[i] : i \in DOMAIN f}

\* a Record<string, number>: a function on the keys that are set
Get(m, k) == IF k \in DOMAIN m THEN m[k] ELSE 0
Put(m, k, v) == [x \in (DOMAIN m) \cup {k} |-> IF x = k THEN v ELSE m[x]]
EmptyMap == [x \in {} |-> 0]

-----------------------------------------------------------------------------
(* The catalogue of texts and job records the requests are drawn from *)

Digits == <<"0","1","2","3","4","5","6","7","8","9">>

\* a two-digit decimal numeral
NumStr(n) == <<Digits[(n \div 10) + 1], Digits[(n % 10) + 1]>>

kwPython == <<"p","y","t","h","o","n">>
kwSql == <<"s","q","l">>

srcLinkedIn == <<"L","i","n","k","e","d","I","n">>
srcIndeed == <<"I","n","d","e","e","d">>
srcTheirStack == <<"T","h","e","i","r","S","t","a","c","k">>
srcCoreSignal == <<"C","o","r","e","S","i","g","n","a","l">>

txtPeru == <<"P","e","r","u">>
txtPeruUpper == <<"P","E","R","U_ACUTE">>
txtChile == <<"C","h","i","l","e">>
txtJunior == <<"j","u","n","i","o","r">>

urlBase == <<"h","t","t","p",":","/","/","x","/">>

\* a MatchedJob; n makes the URL (and so the record) distinct
MatchedJob(title, company, location, source, n, tags, ts) ==
    [title |-> title, company |-> company, location |-> location, source |-> source,
     url |-> urlBase \o NumStr(n), tags |-> tags, score |-> 0,
     publishedAt |-> IF ts = 0 THEN "Sin fecha" ELSE "label", publishedTs |-> ts]

\* "Python Dev" found on LinkedIn
JobPy(n) ==
    MatchedJob(<<"P","y","t","h","o","n"," ","D","e","v">>, <<"A","c","m","e">>, txtPeru,
               srcLinkedIn, n, <<kwPython>>, 0)

\* "SQL Analyst" returned by TheirStack
JobSql(n) ==
    MatchedJob(<<"S","Q","L"," ","A","n","a","l","y","s","t">>, <<"A","c","m","e">>, txtPeru,
               srcTheirStack, n, <<<<"a","n","a","l","y","s","t">>>>, 0)

\* "Chef" found on Indeed
JobChef(n) ==
    MatchedJob(<<"C","h","e","f">>, <<"A","c","m","e">>, txtChile,
               srcIndeed, n, <<<<"c","h","e","f">>>>, 0)

-----------------------------------------------------------------------------
(* SearchMemoryService *)

\* jobs.slice(0, 20)
TopN == 20
\* hits * 0.2, in units of 0.05
KeywordStep == 4
\* Math.min(..., 6), in units of 0.05
KeywordCap == 120
\* 1.2 - index * 0.05 and the floor 0.2, in units of 0.05
SourceBonusTop == 24
SourceBonusFloor == 4
\* Math.min(..., 8), in units of 0.05
SourceCap == 160

\* concurrent requests on the store
NumMemReq == 2
\* calls to the service in one run
MaxMemCalls == 3
\* results beyond the first TopN in the longest result list
ExtraJobs == 2

MemReqs == 1..NumMemReq

\* result lists (uniqueJobs of matchJobsByCv: no two records alike)
JobsAllPython == [i \in 1..TopN |-> JobPy(i)]
JobsFivePython == [i \in 1..TopN |-> IF i <= 5 THEN JobPy(i) ELSE JobChef(i)]
JobsAlternate == [i \in 1..TopN |-> IF i % 2 = 1 THEN JobSql(i) ELSE JobPy(i)]
JobsPythonLate == [i \in 1..(TopN + ExtraJobs) |-> IF i <= TopN THEN JobChef(i) ELSE JobPy(i)]

\* the calls of the concurrent requests
MemJobLists == { JobsAllPython }
\* the searched keywords (sanitizeKeywords: normalized, no duplicates)
MemKeywordLists == { <<kwPython>> }
MemCountries == { txtPeruUpper, txtChile }
MemLevels == { txtJunior }

\* the calls of the one-at-a-time requests
SeqJobLists == { <<>>, JobsAllPython, JobsFivePython, JobsAlternate, JobsPythonLate }
SeqKeywordLists == { <<>>, <<kwPython>>, <<kwSql, kwPython>> }
SeqCountries == { txtPeru, txtPeruUpper, txtChile }

\* every job record and text of the catalogue, and what the code derives from each
CatalogueJobs ==
    UNION { Range(l) : l \in {JobsAllPython, JobsFivePython, JobsAlternate, JobsPythonLate} }
CatalogueTexts ==
    {kwPython, kwSql, srcLinkedIn, srcIndeed, srcTheirStack, srcCoreSignal,
     txtPeru, txtPeruUpper, txtChile, txtJunior}
normalizeTable == [s \in CatalogueTexts |-> normalize(s)]
\* normalize, looked up where it is tabulated
normalizeOf(s) == IF s \in DOMAIN normalizeTable THEN normalizeTable[s] ELSE normalize(s)

EmptyBucket(now) ==
    [keywordWeights |-> EmptyMap, sourceWeights |-> EmptyMap, updates |-> 0, updatedAt |-> now]

\* { buckets: {} }
InitialDb == [k \in {} |-> EmptyBucket(0)]

NoReq == [op |-> "none"]
NoDb == [none |-> TRUE]

\* buildBucketKey
buildBucketKey(country, level) ==
    (IF normalizeOf(country) # <<>> THEN normalizeOf(country) ELSE <<"g","l","o","b","a","l">>)
    \o <<"|">> \o
    (IF normalizeOf(level) # <<>> THEN normalizeOf(level) ELSE <<"u","n","k","n","o","w","n">>)

\* the early return with the keyword test forgotten
learnGuardJobsOnly(searchedKeywords, jobs) == Len(jobs) = 0

\* learnFromResults, line 49: the early return
learnGuard(searchedKeywords, jobs) == Len(jobs) = 0 \/ Len(searchedKeywords) = 0

\* line 66: normalize(`${job.title} ${job.tags.join(' ')}`)
haystackOf(job) == normalize(job.title \o <<" ">> \o join(job.tags, <<" ">>))
haystackTable == [j \in CatalogueJobs |-> haystackOf(j)]
haystackFor(job) == IF job \in DOMAIN haystackTable THEN haystackTable[job] ELSE haystackOf(job)

\* the inner loop of lines 64-68: how many of topJobs contain keyword
RECURSIVE countHits(_, _)
countHits(topJobs, keyword) ==
    IF topJobs = <<>> THEN 0
    ELSE (IF includes(haystackFor(Head(topJobs)), keyword) THEN 1 ELSE 0)
         + countHits(Tail(topJobs), keyword)

\* the keyword update with Math.min forgotten
keywordUpdateNoCap(weights, keyword, hits) ==
    IF hits > 0
    THEN Put(weights, keyword, Get(weights, keyword) + hits * KeywordStep)
    ELSE weights

\* lines 69-72: one keyword's update
keywordUpdate(weights, keyword, hits) ==
    IF hits > 0
    THEN Put(weights, keyword, Min(Get(weights, keyword) + hits * KeywordStep, KeywordCap))
    ELSE weights

\* the loop of lines 63-73 over normalizedKeywords
RECURSIVE learnKeywords(_, _, _)
learnKeywords(weights, normalizedKeywords, topJobs) ==
    IF normalizedKeywords = <<>> THEN weights
    ELSE learnKeywords(
             keywordUpdate(weights, Head(normalizedKeywords),
                           countHits(topJobs, Head(normalizedKeywords))),
             Tail(normalizedKeywords), topJobs)

\* the bonus computed from a 1-based position
sourceBonusOneBased(index) == Max(SourceBonusTop - (index + 1), SourceBonusFloor)

\* line 78: Math.max(1.2 - index * 0.05, 0.2), index 0-based
sourceBonus(index) == Max(SourceBonusTop - index, SourceBonusFloor)

\* lines 76-80: one job's update of sourceWeights
sourceUpdate(weights, job, index) ==
    LET src == normalizeOf(job.source) IN
    IF src = <<>> THEN weights
    ELSE Put(weights, src, Min(Get(weights, src) + sourceBonus(index), SourceCap))

\* topJobs.forEach of lines 75-81, from 0-based position index on
RECURSIVE learnSources(_, _, _)
learnSources(weights, topJobs, index) ==
    IF index >= Len(topJobs) THEN weights
    ELSE learnSources(sourceUpdate(weights, topJobs[index + 1], index), topJobs, index + 1)

\* learning from every result, jobs.slice(0, 20) forgotten
learnBucketAllJobs(db, key, searchedKeywords, jobs, now) ==
    LET bucket == IF key \in DOMAIN db THEN db[key] ELSE EmptyBucket(now)
        normalizedKeywords ==
            SelectSeq([i \in 1..Len(searchedKeywords) |-> normalizeOf(searchedKeywords[i])],
                      LAMBDA k : k # <<>>)
    IN  [keywordWeights |-> learnKeywords(bucket.keywordWeights, normalizedKeywords, jobs),
         sourceWeights |-> learnSources(bucket.sourceWeights, jobs, 0),
         updates |-> bucket.updates + 1,
         updatedAt |-> now]

\* lines 53-85: the bucket after learning, from the bucket read (or a fresh one)
learnBucket(db, key, searchedKeywords, jobs, now) ==
    LET bucket == IF key \in DOMAIN db THEN db[key] ELSE EmptyBucket(now)
        topJobs == slice0(jobs, TopN)
        normalizedKeywords ==
            SelectSeq([i \in 1..Len(searchedKeywords) |-> normalizeOf(searchedKeywords[i])],
                      LAMBDA k : k # <<>>)
    IN  [keywordWeights |-> learnKeywords(bucket.keywordWeights, normalizedKeywords, topJobs),
         sourceWeights |-> learnSources(bucket.sourceWeights, topJobs, 0),
         updates |-> bucket.updates + 1,
         updatedAt |-> now]

\* db.buckets[key] = bucket
learnDb(db, key, searchedKeywords, jobs, now) ==
    Put(db, key, learnBucket(db, key, searchedKeywords, jobs, now))

NoProfile == [none |-> TRUE]

\* getProfile's answer when there is no bucket
EmptyProfile == [keywordWeights |-> EmptyMap, sourceWeights |-> EmptyMap]

\* getProfile, lines 29-40, from the db read
profileOf(db, country, level) ==
    LET key == buildBucketKey(country, level) IN
    IF key \in DOMAIN db
    THEN [keywordWeights |-> db[key].keywordWeights, sourceWeights |-> db[key].sourceWeights]
    ELSE EmptyProfile

MemFrame == UNCHANGED <<searchVars, usageVars, matchVars, fnVars, ragVars>>

MemInit ==
    /\ memFile = [exists |-> FALSE, buckets |-> InitialDb]
    /\ memPc = [r \in MemReqs |-> "idle"]
    /\ memReq = [r \in MemReqs |-> NoReq]
    /\ memDb = [r \in MemReqs |-> NoDb]
    /\ memClock = 0
    /\ memOut = [r \in MemReqs |-> NoProfile]

\* a request calls learnFromResults(country, level, searchedKeywords, jobs)
learnFromResults(r, country, level, searchedKeywords, jobs) ==
    /\ memPc[r] = "idle"
    /\ memClock < MaxMemCalls
    /\ memClock' = memClock + 1
    /\ memReq' = [memReq EXCEPT ![r] =
                    [op |-> "learn", country |-> country, level |-> level,
                     searchedKeywords |-> searchedKeywords, jobs |-> jobs]]
    /\ memPc' = [memPc EXCEPT ![r] = "called"]
    /\ memOut' = [memOut EXCEPT ![r] = NoProfile]
    /\ UNCHANGED <<memFile, memDb>>
    /\ MemFrame

\* line 49: return at once, or go on to `await this.readDb()`
learnEnter(r) ==
    /\ memPc[r] = "called"
    /\ IF learnGuard(memReq[r].searchedKeywords, memReq[r].jobs)
       THEN /\ memPc' = [memPc EXCEPT ![r] = "idle"]
            /\ memReq' = [memReq EXCEPT ![r] = NoReq]
       ELSE /\ memPc' = [memPc EXCEPT ![r] = "readDb"]
            /\ UNCHANGED memReq
    /\ UNCHANGED <<memFile, memDb, memClock, memOut>>
    /\ MemFrame

\* a request calls getProfile(country, level): `await this.readDb()`
getProfile(r, country, level) ==
    /\ memPc[r] = "idle"
    /\ memClock < MaxMemCalls
    /\ memClock' = memClock + 1
    /\ memReq' = [memReq EXCEPT ![r] = [op |-> "get", country |-> country, level |-> level]]
    /\ memPc' = [memPc EXCEPT ![r] = "readDb"]
    /\ memOut' = [memOut EXCEPT ![r] = NoProfile]
    /\ UNCHANGED <<memFile, memDb>>
    /\ MemFrame

\* what the handler does, synchronously, once readDb has returned db
afterRead(r, db) ==
    IF memReq[r].op = "learn"
    THEN /\ memDb' = [memDb EXCEPT ![r] =
                        learnDb(db, buildBucketKey(memReq[r].country, memReq[r].level),
                                memReq[r].searchedKeywords, memReq[r].jobs, memClock)]
         /\ memPc' = [memPc EXCEPT ![r] = "writeDb"]
         /\ UNCHANGED <<memReq, memOut>>
    ELSE /\ memDb' = [memDb EXCEPT ![r] = NoDb]
         /\ memPc' = [memPc EXCEPT ![r] = "idle"]
         /\ memReq' = [memReq EXCEPT ![r] = NoReq]
         /\ memOut' = [memOut EXCEPT ![r] = profileOf(db, memReq[r].country, memReq[r].level)]

\* readDb, lines 105-109: the file is read and parsed
readDb(r) ==
    /\ memPc[r] = "readDb"
    /\ memFile.exists
    /\ afterRead(r, memFile.buckets)
    /\ UNCHANGED <<memFile, memClock>>
    /\ MemFrame

\* a writeFile of the store by another request is in progress: the file is
\* opened with truncation and its content is written afterwards
WriteInProgress(r) == \E o \in MemReqs \ {r} : memPc[o] \in {"writeDb", "readDbCatch"}

\* readDb, line 110: readFile rejects (there is no file) or JSON.parse throws
\* (the content is cut short by a write in progress)
readDbFails(r) ==
    /\ memPc[r] = "readDb"
    /\ ~memFile.exists \/ WriteInProgress(r)
    /\ memPc' = [memPc EXCEPT ![r] = "readDbCatch"]
    /\ UNCHANGED <<memFile, memReq, memDb, memClock, memOut>>
    /\ MemFrame

\* readDb, lines 111-114: the catch block writes and returns { buckets: {} }
readDbCatch(r) ==
    /\ memPc[r] = "readDbCatch"
    /\ memFile' = [exists |-> TRUE, buckets |-> InitialDb]
    /\ afterRead(r, InitialDb)
    /\ UNCHANGED memClock
    /\ MemFrame

\* writeDb, lines 118-121, and the return of learnFromResults
writeDb(r) ==
    /\ memPc[r] = "writeDb"
    /\ memFile' = [exists |-> TRUE, buckets |-> memDb[r]]
    /\ memPc' = [memPc EXCEPT ![r] = "idle"]
    /\ memReq' = [memReq EXCEPT ![r] = NoReq]
    /\ memDb' = [memDb EXCEPT ![r] = NoDb]
    /\ UNCHANGED <<memClock, memOut>>
    /\ MemFrame

MemNext ==
    \/ \E r \in MemReqs, c \in MemCountries, l \in MemLevels,
          k \in MemKeywordLists, j \in MemJobLists : learnFromResults(r, c, l, k, j)
    \/ \E r \in MemReqs : learnEnter(r)
    \/ \E r \in MemReqs, c \in MemCountries, l \in MemLevels : getProfile(r, c, l)
    \/ \E r \in MemReqs : readDb(r)
    \/ \E r \in MemReqs : readDbFails(r)
    \/ \E r \in MemReqs : readDbCatch(r)
    \/ \E r \in MemReqs : writeDb(r)

\* one request at a time: request 1 alone, with the wider range of calls
MemSeqNext ==
    \/ \E c \in SeqCountries, l \in MemLevels,
          k \in SeqKeywordLists, j \in SeqJobLists : learnFromResults(1, c, l, k, j)
    \/ learnEnter(1)
    \/ \E c \in SeqCountries, l \in MemLevels : getProfile(1, c, l)
    \/ readDb(1)
    \/ readDbFails(1)
    \/ readDbCatch(1)
    \/ writeDb(1)

-----------------------------------------------------------------------------
(* JobSearchService: pure helpers *)

\* String.prototype.split('?')[0]
RECURSIVE beforeQuery(_)
beforeQuery(url) ==
    IF url = <<>> \/ Head(url) = "?" THEN <<>> ELSE <<Head(url)>> \o beforeQuery(Tail(url))

\* encodeURIComponent, one character (UTF-8 percent-encoding of what is not unreserved)
encodeChar(c) ==
    CASE c = " " -> <<"%","2","0">>
      [] c = ":" -> <<"%","3","A">>
      [] c = "," -> <<"%","2","C">>
      [] c = "/" -> <<"%","2","F">>
      [] c = "?" -> <<"%","3","F">>
      [] c = "&" -> <<"%","2","6">>
      [] c = "=" -> <<"%","3","D">>
      [] c = "+" -> <<"%","2","B">>
      [] c = "#" -> <<"%","2","3">>
      [] c = "u_acute" -> <<"%","C","3","%","B","A">>
      [] c = "U_ACUTE" -> <<"%","C","3","%","9","A">>
      [] OTHER -> <<c>>

encodeURIComponent(s) == FlatMap(encodeChar, s)

\* [...new Set(xs)]: first occurrences, in order
RECURSIVE uniq(_)
uniq(xs) ==
    IF xs = <<>> THEN <<>>
    ELSE LET init == uniq(SubSeq(xs, 1, Len(xs) - 1))
             x == xs[Len(xs)]
         IN  IF x \in Range(init) THEN init ELSE Append(init, x)

\* Array.prototype.flat
RECURSIVE flat(_)
flat(xss) == IF xss = <<>> THEN <<>> ELSE Head(xss) \o flat(Tail(xss))

\* x put into the sorted list s, behind every element it does not come before
RECURSIVE insertSorted(_, _, _)
insertSorted(Before(_, _), s, x) ==
    IF s = <<>> THEN <<x>>
    ELSE IF Before(x, Head(s)) THEN <<x>> \o s
    ELSE <<Head(s)>> \o insertSorted(Before, Tail(s), x)

\* Array.prototype.sort with a comparator: stable
RECURSIVE sortBy(_, _)
sortBy(Before(_, _), s) ==
    IF s = <<>> THEN <<>>
    ELSE insertSorted(Before, sortBy(Before, SubSeq(s, 1, Len(s) - 1)), s[Len(s)])

\* the clock of the retrieval, Date.now(), in hours
NowHours == 1000

kwPythonRaw == <<"P","y","t","h","o","n">>

\* cleanKeywords: the noise words
noiseWords ==
    { <<"p","r","o","y","e","c","t","o">>,
      <<"t","i","t","u","l","o">>,
      <<"d","e","s","c","r","i","p","c","i","o","n">>,
      <<"d","e","s","c","r","i","p","c","i">>,
      <<"c","l","u","b">>,
      <<"d","e","p","o","r","t","i","v","o">>,
      <<"i","n","t","e","r","m","e","d","i","o">>,
      <<"2","0","2","2">> }

\* cleanKeywords
cleanKeywords(keywords) ==
    uniq(SelectSeq([i \in 1..Len(keywords) |-> normalize(keywords[i])],
                   LAMBDA k : k # <<>> /\ Len(k) >= 3 /\ k \notin noiseWords))

NoExperience == [none |-> TRUE]
HasExperience(experience) == experience # NoExperience

\* enrichKeywordsWithExperience
enrichKeywordsWithExperience(keywords, experience) ==
    IF ~HasExperience(experience) THEN keywords
    ELSE uniq(keywords \o experience.seniorityTerms)

\* line 73: the seeds of the scrape queries
defaultSeedsOf(enrichedKeywords) ==
    IF slice0(enrichedKeywords, 3) # <<>> THEN slice0(enrichedKeywords, 3)
    ELSE <<<<"p","r","a","c","t","i","c","a","n","t","e">>, <<"a","n","a","l","i","s","t","a">>, <<"a","s","i","s","t","e","n","t","e">>>>

\* resolveCountry
resolveCountry(country, location) ==
    LET value == trim(country)
        locationValue == trim(location)
        normalized == normalize(locationValue)
    IN  IF value # <<>> THEN value
        ELSE IF locationValue = <<>> THEN <<"P","e","r","u">>
        ELSE IF includes(normalized, <<"p","e","r","u">>) THEN <<"P","e","r","u">>
        ELSE IF includes(normalized, <<"m","e","x","i","c","o">>) THEN <<"M","e","x","i","c","o">>
        ELSE IF includes(normalized, <<"a","r","g","e","n","t","i","n","a">>) THEN <<"A","r","g","e","n","t","i","n","a">>
        ELSE IF includes(normalized, <<"c","h","i","l","e">>) THEN <<"C","h","i","l","e">>
        ELSE IF includes(normalized, <<"c","o","l","o","m","b","i","a">>) THEN <<"C","o","l","o","m","b","i","a">>
        ELSE IF includes(normalized, <<"e","s","p","a","n","a">>) \/ includes(normalized, <<"s","p","a","i","n">>)
             THEN <<"S","p","a","i","n">>
        ELSE IF \/ includes(normalized, <<"u","n","i","t","e","d"," ","s","t","a","t","e","s">>)
                \/ includes(normalized, <<"u","s","a">>)
                \/ includes(normalized, <<"e","s","t","a","d","o","s"," ","u","n","i","d","o","s">>)
             THEN <<"U","n","i","t","e","d"," ","S","t","a","t","e","s">>
        ELSE <<"P","e","r","u">>

\* `${cityOrRegion}, ${countryText}` or countryText
locationTextOf(cityOrRegion, countryText) ==
    IF cityOrRegion # <<>> THEN cityOrRegion \o <<",", " ">> \o countryText ELSE countryText

\* the scrape sources, line 55-61: source and domainHint
sources ==
    << [source |-> <<"L","i","n","k","e","d","I","n">>, domainHint |-> <<"l","i","n","k","e","d","i","n",".","c","o","m","/","j","o","b","s">>],
       [source |-> <<"I","n","d","e","e","d">>, domainHint |-> <<"i","n","d","e","e","d",".">>],
       [source |-> <<"C","o","m","p","u","t","r","a","b","a","j","o">>, domainHint |-> <<"c","o","m","p","u","t","r","a","b","a","j","o",".">>],
       [source |-> <<"B","u","m","e","r","a","n">>, domainHint |-> <<"b","u","m","e","r","a","n",".">>],
       [source |-> <<"G","l","a","s","s","d","o","o","r">>, domainHint |-> <<"g","l","a","s","s","d","o","o","r",".">>] >>

\* the queries with one query for each source and seed
buildQueriesOncePerSeed(seeds, locationText) ==
    flat([s \in 1..Len(sources) |->
            [k \in 1..Len(seeds) |->
                [word |-> "jobs", locationText |-> locationText, seed |-> seeds[k],
                 source |-> sources[s]]]])

\* buildQueries: for each source, for each seed, an "empleo" and a "jobs" query
buildQueries(seeds, locationText) ==
    flat([s \in 1..Len(sources) |->
            flat([k \in 1..Len(seeds) |->
                    << [word |-> "empleo", locationText |-> locationText, seed |-> seeds[k],
                        source |-> sources[s]],
                       [word |-> "jobs", locationText |-> locationText, seed |-> seeds[k],
                        source |-> sources[s]] >>])])

\* getCountryTokens
getCountryTokens(countryText) ==
    LET normalized == normalize(countryText) IN
    IF normalized = <<"p","e","r","u">> THEN <<<<"p","e","r","u">>, <<"l","i","m","a">>, <<"a","r","e","q","u","i","p","a">>, <<"t","r","u","j","i","l","l","o">>, <<"c","u","s","c","o">>, <<"p","i","u","r","a">>, <<"c","h","i","c","l","a","y","o">>>>
    ELSE IF normalized = <<"m","e","x","i","c","o">> THEN <<<<"m","e","x","i","c","o">>, <<"c","d","m","x">>, <<"g","u","a","d","a","l","a","j","a","r","a">>, <<"m","o","n","t","e","r","r","e","y">>, <<"p","u","e","b","l","a">>>>
    ELSE IF normalized = <<"a","r","g","e","n","t","i","n","a">> THEN <<<<"a","r","g","e","n","t","i","n","a">>, <<"b","u","e","n","o","s"," ","a","i","r","e","s">>, <<"c","o","r","d","o","b","a">>, <<"r","o","s","a","r","i","o">>, <<"m","e","n","d","o","z","a">>>>
    ELSE IF normalized = <<"c","h","i","l","e">> THEN <<<<"c","h","i","l","e">>, <<"s","a","n","t","i","a","g","o">>, <<"v","a","l","p","a","r","a","i","s","o">>, <<"c","o","n","c","e","p","c","i","o","n">>, <<"v","i","n","a"," ","d","e","l"," ","m","a","r">>>>
    ELSE IF normalized = <<"c","o","l","o","m","b","i","a">> THEN <<<<"c","o","l","o","m","b","i","a">>, <<"b","o","g","o","t","a">>, <<"m","e","d","e","l","l","i","n">>, <<"c","a","l","i">>, <<"b","a","r","r","a","n","q","u","i","l","l","a">>>>
    ELSE IF normalized = <<"s","p","a","i","n">> \/ normalized = <<"e","s","p","a","n","a">>
         THEN <<<<"s","p","a","i","n">>, <<"e","s","p","a","n","a">>, <<"m","a","d","r","i","d">>, <<"b","a","r","c","e","l","o","n","a">>, <<"v","a","l","e","n","c","i","a">>>>
    ELSE IF normalized = <<"u","n","i","t","e","d"," ","s","t","a","t","e","s">>
         THEN <<<<"u","n","i","t","e","d"," ","s","t","a","t","e","s">>, <<"u","s","a">>, <<"u","s">>, <<"n","e","w"," ","y","o","r","k">>, <<"c","a","l","i","f","o","r","n","i","a">>, <<"t","e","x","a","s">>, <<"f","l","o","r","i","d","a">>>>
    ELSE <<normalized>>

IsApiSource(source) ==
    source \in { <<"R","a","p","i","d","A","P","I">>, <<"T","h","e","i","r","S","t","a","c","k">>, <<"C","o","r","e","S","i","g","n","a","l">> }

\* the filter with the same test for every provider
isJobInCountryAnyProvider(job, countryText, cityOrRegion) ==
    LET geo == normalize(job.title \o <<" ">> \o job.location \o <<" ">> \o join(job.tags, <<" ">>))
        cityToken == normalize(cityOrRegion)
    IN  \/ cityOrRegion # <<>> /\ cityToken # <<>> /\ includes(geo, cityToken)
        \/ \E t \in Range(getCountryTokens(countryText)) : includes(geo, t)

\* isJobInCountry
isJobInCountry(job, countryText, cityOrRegion) ==
    LET geo == normalize(job.title \o <<" ">> \o job.location \o <<" ">> \o join(job.tags, <<" ">>))
        hasCountry == \E t \in Range(getCountryTokens(countryText)) : includes(geo, t)
        cityToken == normalize(cityOrRegion)
    IN  IF cityOrRegion # <<>> /\ cityToken # <<>> /\ includes(geo, cityToken) THEN TRUE
        ELSE IF hasCountry THEN TRUE
        ELSE IF IsApiSource(job.source) THEN FALSE
        ELSE TRUE

entryTokens == <<<<"p","r","a","c","t","i","c","a","n","t","e">>, <<"p","r","a","c","t","i","c","a">>, <<"i","n","t","e","r","n">>, <<"j","u","n","i","o","r">>, <<"t","r","a","i","n","e","e">>, <<"e","n","t","r","y"," ","l","e","v","e","l">>>>
seniorTokens == <<<<"s","e","n","i","o","r">>, <<"l","e","a","d">>, <<"m","a","n","a","g","e","r">>, <<"p","r","i","n","c","i","p","a","l">>, <<"h","e","a","d">>>>

\* scoreByExperience
\* the experience term with every level but junior taken as senior
scoreByExperienceTwoLevels(haystack, experience) ==
    IF ~HasExperience(experience) THEN 0
    ELSE LET hasEntry == \E t \in Range(entryTokens) : includes(haystack, t)
             hasSenior == \E t \in Range(seniorTokens) : includes(haystack, t)
         IN  IF experience.prefersInternships
             THEN (IF hasEntry THEN 14 ELSE IF hasSenior THEN -16 ELSE 0)
             ELSE IF experience.level = "junior"
             THEN (IF hasEntry THEN 8 ELSE IF hasSenior THEN -10 ELSE 0)
             ELSE (IF hasSenior THEN 10 ELSE IF hasEntry THEN -8 ELSE 0)

\* scoreByExperience
scoreByExperience(haystack, experience) ==
    IF ~HasExperience(experience) THEN 0
    ELSE LET hasEntry == \E t \in Range(entryTokens) : includes(haystack, t)
             hasSenior == \E t \in Range(seniorTokens) : includes(haystack, t)
         IN  IF experience.prefersInternships
             THEN (IF hasEntry THEN 14 ELSE IF hasSenior THEN -16 ELSE 0)
             ELSE IF experience.level = "junior"
             THEN (IF hasEntry THEN 8 ELSE IF hasSenior THEN -10 ELSE 0)
             ELSE IF experience.level = "senior"
             THEN (IF hasSenior THEN 10 ELSE IF hasEntry THEN -8 ELSE 0)
             ELSE 0

\* getAgeInHours and lines 840-843: the recency term (ts 0 is an unknown date)
recencyScore(publishedTs) ==
    IF publishedTs = 0 THEN 0
    ELSE LET recencyHours == Max(NowHours - publishedTs, 0) IN
         IF recencyHours <= 24 THEN 14
         ELSE IF recencyHours <= 72 THEN 8
         ELSE IF recencyHours <= 168 THEN 4
         ELSE 0

\* the score without the term of the city
scoreJobNoCity(job, keywords, countryText, cityOrRegion, experience) ==
    LET haystack == normalize(job.title \o <<" ">> \o job.company \o <<" ">> \o job.location
                              \o <<" ">> \o join(job.tags, <<" ">>))
        needle == SelectSeq([i \in 1..Len(keywords) |-> normalize(keywords[i])],
                            LAMBDA k : k # <<>>)
        cityToken == normalize(cityOrRegion)
    IN  12 * Cardinality({i \in 1..Len(needle) : includes(haystack, needle[i])})
        + (IF \E t \in Range(getCountryTokens(countryText)) : includes(haystack, t) THEN 8 ELSE 0)
        + recencyScore(job.publishedTs)
        + (IF IsApiSource(job.source) THEN 6 ELSE 0)
        + scoreByExperience(haystack, experience)

\* the score with 8 instead of 12 for a keyword found
scoreJobEightPerHit(job, keywords, countryText, cityOrRegion, experience) ==
    LET haystack == normalize(job.title \o <<" ">> \o job.company \o <<" ">> \o job.location
                              \o <<" ">> \o join(job.tags, <<" ">>))
        needle == SelectSeq([i \in 1..Len(keywords) |-> normalize(keywords[i])],
                            LAMBDA k : k # <<>>)
        cityToken == normalize(cityOrRegion)
    IN  8 * Cardinality({i \in 1..Len(needle) : includes(haystack, needle[i])})
        + (IF \E t \in Range(getCountryTokens(countryText)) : includes(haystack, t) THEN 8 ELSE 0)
        + (IF cityOrRegion # <<>> /\ cityToken # <<>> /\ includes(haystack, cityToken) THEN 6 ELSE 0)
        + recencyScore(job.publishedTs)
        + (IF IsApiSource(job.source) THEN 6 ELSE 0)
        + scoreByExperience(haystack, experience)

\* scoreJob
scoreJob(job, keywords, countryText, cityOrRegion, experience) ==
    LET haystack == normalize(job.title \o <<" ">> \o job.company \o <<" ">> \o job.location
                              \o <<" ">> \o join(job.tags, <<" ">>))
        needle == SelectSeq([i \in 1..Len(keywords) |-> normalize(keywords[i])],
                            LAMBDA k : k # <<>>)
        cityToken == normalize(cityOrRegion)
    IN  12 * Cardinality({i \in 1..Len(needle) : includes(haystack, needle[i])})
        + (IF \E t \in Range(getCountryTokens(countryText)) : includes(haystack, t) THEN 8 ELSE 0)
        + (IF cityOrRegion # <<>> /\ cityToken # <<>> /\ includes(haystack, cityToken) THEN 6 ELSE 0)
        + recencyScore(job.publishedTs)
        + (IF IsApiSource(job.source) THEN 6 ELSE 0)
        + scoreByExperience(haystack, experience)

\* buildSourceSearchUrl
buildSourceSearchUrl(source, keyword, countryText, cityOrRegion) ==
    LET q == encodeURIComponent(keyword)
        location == locationTextOf(cityOrRegion, countryText)
        l == encodeURIComponent(location)
    IN  IF source = <<"L","i","n","k","e","d","I","n">>
        THEN <<"h","t","t","p","s",":","/","/","w","w","w",".","l","i","n","k","e","d","i","n",".","c","o","m","/","j","o","b","s","/","s","e","a","r","c","h","/","?","k","e","y","w","o","r","d","s","=">> \o q
             \o <<"&","l","o","c","a","t","i","o","n","=">> \o l
        ELSE IF source = <<"I","n","d","e","e","d">>
        THEN <<"h","t","t","p","s",":","/","/","w","w","w",".","i","n","d","e","e","d",".","c","o","m","/","j","o","b","s","?","q","=">> \o q \o <<"&","l","=">> \o l
        ELSE IF source = <<"C","o","m","p","u","t","r","a","b","a","j","o">>
        THEN <<"h","t","t","p","s",":","/","/","w","w","w",".","b","i","n","g",".","c","o","m","/","s","e","a","r","c","h","?","q","=">>
             \o encodeURIComponent(<<"s","i","t","e",":","c","o","m","p","u","t","r","a","b","a","j","o",".","c","o","m"," ">> \o keyword \o <<" ">> \o location)
        ELSE IF source = <<"B","u","m","e","r","a","n">>
        THEN <<"h","t","t","p","s",":","/","/","w","w","w",".","b","i","n","g",".","c","o","m","/","s","e","a","r","c","h","?","q","=">>
             \o encodeURIComponent(<<"s","i","t","e",":","b","u","m","e","r","a","n",".","c","o","m"," ">> \o keyword \o <<" ">> \o location)
        ELSE <<"h","t","t","p","s",":","/","/","w","w","w",".","g","l","a","s","s","d","o","o","r",".","c","o","m","/","J","o","b","/","j","o","b","s",".","h","t","m","?","s","c",".","k","e","y","w","o","r","d","=">> \o q
             \o <<"&","l","o","c","T","=","C","&","l","o","c","I","d","=","1">>

fallbackSources == <<<<"C","o","m","p","u","t","r","a","b","a","j","o">>, <<"I","n","d","e","e","d">>, <<"B","u","m","e","r","a","n">>, <<"L","i","n","k","e","d","I","n">>, <<"G","l","a","s","s","d","o","o","r">>>>

\* buildPortalSearchFallback ("QUOTE" stands for the double quote character)
buildPortalSearchFallback(keywords, countryText, cityOrRegion) ==
    LET location == locationTextOf(cityOrRegion, countryText)
        seeds == IF keywords # <<>> THEN slice0(keywords, 20)
                 ELSE <<<<"p","r","a","c","t","i","c","a","n","t","e">>, <<"a","n","a","l","i","s","t","a">>, <<"a","s","i","s","t","e","n","t","e">>, <<"p","y","t","h","o","n">>>>
    IN  flat([k \in 1..Len(seeds) |->
                [s \in 1..Len(fallbackSources) |->
                    [title |-> <<"B","u","s","c","a","r"," ","QUOTE">> \o seeds[k] \o <<"QUOTE"," ","e","n"," ">>
                               \o fallbackSources[s] \o <<" ", "(">> \o location \o <<")">>,
                     company |-> fallbackSources[s],
                     location |-> location,
                     source |-> fallbackSources[s],
                     url |-> buildSourceSearchUrl(fallbackSources[s], seeds[k], countryText, cityOrRegion),
                     tags |-> <<seeds[k]>> \o slice0(seeds, 4),
                     score |-> 18,
                     publishedAt |-> "Sin fecha",
                     publishedTs |-> 0]]])

\* the key with the query string kept
dedupeKeyWholeUrl(item) == normalize(item.source \o <<"|">> \o item.url)

\* mergeAndDedupe, line 1021: the key of a record
dedupeKey(item) == normalize(item.source \o <<"|">> \o beforeQuery(item.url))

\* mergeAndDedupe, lines 1018-1025: the Map's values, in insertion order
RECURSIVE firstByKey(_, _)
firstByKey(items, seen) ==
    IF items = <<>> THEN <<>>
    ELSE LET item == Head(items) IN
         IF item.url = <<>> \/ dedupeKey(item) \in seen
         THEN firstByKey(Tail(items), seen)
         ELSE <<item>> \o firstByKey(Tail(items), seen \cup {dedupeKey(item)})

\* mergeAndDedupe, lines 1026-1030: the comparator (a sorts before b)
newerThenScore(a, b) ==
    IF b.publishedTs - a.publishedTs # 0 THEN b.publishedTs - a.publishedTs < 0
    ELSE b.score - a.score < 0

\* mergeAndDedupe
mergeAndDedupe(items) == sortBy(newerThenScore, firstByKey(items, {}))

\* line 93: the comparator of the ranking (a sorts before b)
higherScore(a, b) == b.score - a.score < 0

\* lines 91-94: score, sort by score, keep 180
rank(base, keywords, countryText, cityOrRegion, experience) ==
    slice0(sortBy(higherScore,
                  [i \in 1..Len(base) |->
                      [base[i] EXCEPT !.score =
                          scoreJob(base[i], keywords, countryText, cityOrRegion, experience)]]),
           180)

-----------------------------------------------------------------------------
(* JobSearchService: what the providers answer *)

\* a record of a provider's answer, with the fields the mapping picks from it
Record(title, company, location, href, tags, ts) ==
    [title |-> title, company |-> company, location |-> location, href |-> href,
     tags |-> tags, publishedTs |-> ts]

recSqlAnalyst ==
    Record(<<"S","Q","L"," ","A","n","a","l","y","s","t">>, <<"A","c","m","e">>, <<"L","i","m","a",","," ","P","e","r","u">>,
           <<"h","t","t","p","s",":","/","/","t","s",".","i","o","/","j","/","1">>, <<<<"a","n","a","l","y","s","t">>>>, NowHours - 200)
recSqlAnalystAgain ==
    Record(<<"S","Q","L"," ","A","n","a","l","y","s","t">>, <<"A","c","m","e">>, <<"L","i","m","a",","," ","P","e","r","u">>,
           <<"h","t","t","p","s",":","/","/","t","s",".","i","o","/","j","/","1","?","r","e","f","=","c","i","t","y">>, <<<<"a","n","a","l","y","s","t">>>>, NowHours - 200)
recSeniorLead ==
    Record(<<"S","e","n","i","o","r"," ","P","y","t","h","o","n"," ","L","e","a","d">>, <<"A","c","m","e">>, <<"L","i","m","a",","," ","P","e","r","u">>,
           <<"h","t","t","p","s",":","/","/","t","s",".","i","o","/","j","/","2">>, <<<<"s","e","n","i","o","r">>, <<"p","y","t","h","o","n">>, <<"l","e","a","d">>>>, NowHours - 10)
recNoUrl ==
    Record(<<"P","y","t","h","o","n"," ","T","e","s","t","e","r">>, <<"A","c","m","e">>, <<"L","i","m","a",","," ","P","e","r","u">>,
           <<>>, <<<<"p","y","t","h","o","n">>, <<"t","e","s","t","e","r">>>>, NowHours - 10)
recPyRemote ==
    Record(<<"P","y","t","h","o","n"," ","D","e","v","e","l","o","p","e","r">>, <<"G","l","o","b","e","x">>, <<"R","e","m","o","t","e">>,
           <<"h","t","t","p","s",":","/","/","c","s",".","i","o","/","j","/","7">>, <<<<"p","y","t","h","o","n">>, <<"d","e","v","e","l","o","p","e","r">>, <<"g","l","o","b","e","x">>>>, NowHours - 50)
recPyLima ==
    Record(<<"P","y","t","h","o","n"," ","D","e","v">>, <<"I","n","i","t","e","c","h">>, <<"L","i","m","a">>,
           <<"h","t","t","p","s",":","/","/","c","s",".","i","o","/","j","/","8">>, <<<<"p","y","t","h","o","n">>, <<"i","n","i","t","e","c","h">>, <<"l","i","m","a">>>>, 0)
recLinkedIn ==
    Record(<<"P","y","t","h","o","n"," ","D","e","v"," ","-"," ","L","i","m","a",","," ","P","e","r","u">>, <<"L","i","m","a",","," ","P","e","r","u">>, <<"L","i","m","a",","," ","P","e","r","u">>,
           <<"h","t","t","p","s",":","/","/","w","w","w",".","l","i","n","k","e","d","i","n",".","c","o","m","/","j","o","b","s","/","v","i","e","w","/","1","?","t","r","k","=","x">>, <<<<"p","y","t","h","o","n">>, <<"l","i","m","a">>, <<"p","e","r","u">>>>, 0)
recOffDomain ==
    Record(<<"P","y","t","h","o","n"," ","c","o","u","r","s","e">>, <<"E","m","p","r","e","s","a"," ","n","o"," ","d","e","t","e","c","t","a","d","a">>, <<"P","e","r","u"," ","(","n","o"," ","e","s","p","e","c","i","f","i","c","a","d","o",")">>,
           <<"h","t","t","p","s",":","/","/","e","x","a","m","p","l","e",".","c","o","m","/","c","o","u","r","s","e">>, <<<<"p","y","t","h","o","n">>, <<"c","o","u","r","s","e">>>>, 0)
recRelativeLink ==
    Record(<<"P","y","t","h","o","n"," ","D","e","v">>, <<"E","m","p","r","e","s","a"," ","n","o"," ","d","e","t","e","c","t","a","d","a">>, <<"P","e","r","u"," ","(","n","o"," ","e","s","p","e","c","i","f","i","c","a","d","o",")">>,
           <<"/","j","o","b","s","/","v","i","e","w","/","2">>, <<<<"p","y","t","h","o","n">>>>, 0)
recChef ==
    Record(<<"C","h","e","f">>, <<"E","m","p","r","e","s","a"," ","n","o"," ","d","e","t","e","c","t","a","d","a">>, <<"P","e","r","u"," ","(","n","o"," ","e","s","p","e","c","i","f","i","c","a","d","o",")">>,
           <<"h","t","t","p","s",":","/","/","p","e",".","i","n","d","e","e","d",".","c","o","m","/","v","i","e","w","j","o","b","?","j","k","=","1">>, <<<<"c","h","e","f">>>>, NowHours - 50)

\* a result whose snippet names Madrid (extractLocation: 'Madrid, Spain')
recChefMadrid ==
    Record(<<"C","h","e","f">>, <<"E","m","p","r","e","s","a"," ","n","o"," ","d","e","t","e","c","t","a","d","a">>, <<"M","a","d","r","i","d",","," ","S","p","a","i","n">>,
           <<"h","t","t","p","s",":","/","/","p","e",".","i","n","d","e","e","d",".","c","o","m","/","j","o","b","/","2">>, <<<<"c","h","e","f">>, <<"m","a","d","r","i","d">>>>, 0)

\* TheirStack's answer to the primary and to a secondary request body
TheirStackPages == << <<recSqlAnalyst, recNoUrl>>, <<recSqlAnalystAgain, recSeniorLead>> >>
\* CoreSignal's detail records of the ids its search returns
CoreSignalDetails == <<recPyRemote, recPyLima>>
\* the search engine's result pages
LinkedInPage == <<recLinkedIn, recOffDomain, recRelativeLink>>
IndeedPage == <<recChef, recChefMadrid>>

\* how a request ends: a usable answer, an HTTP error status, no answer in time,
\* or an answer whose payload is not what the code expects
Outcomes == {"ok", "http_error", "timeout", "malformed"}

\* axios rejects
IsFailure(outcome) == outcome \in {"http_error", "timeout"}

\* String.prototype.startsWith
startsWith(s, prefix) == Len(s) >= Len(prefix) /\ SubSeq(s, 1, Len(prefix)) = prefix

\* clean
clean(value) == trim(CollapseSpaces(value))

\* normalizeUrl (no answer of the catalogue holds a uddg= redirect link)
normalizeUrl(url) ==
    LET trimmed == clean(url) IN
    IF trimmed = <<>> THEN <<>>
    ELSE IF startsWith(trimmed, <<"h","t","t","p">>) THEN trimmed
    ELSE <<>>

\* parsePublished / parsePublishedFromSnippet: the label
publishedLabel(ts) == IF ts = 0 THEN "Sin fecha" ELSE "label"

\* mapTheirStackRecord, mapCoreSignalRecord: one record
mapRecord(record, source) ==
    [title |-> clean(record.title), company |-> clean(record.company),
     location |-> clean(record.location), source |-> source,
     url |-> normalizeUrl(record.href), tags |-> record.tags, score |-> 0,
     publishedAt |-> publishedLabel(record.publishedTs), publishedTs |-> record.publishedTs]

\* lines 347-354, 484-490: the records that map to a job (a record without URL maps to null)
mapRecords(records, source) ==
    SelectSeq([i \in 1..Len(records) |-> mapRecord(records[i], source)],
              LAMBDA job : job.url # <<>>)

\* searchDuckDuckGo, lines 714-736: the jobs of a result page
scrapeJobs(page, sourceConfig) ==
    slice0(SelectSeq([i \in 1..Len(page) |-> mapRecord(page[i], sourceConfig.source)],
                     LAMBDA job : /\ job.url # <<>>
                                  /\ includes(Lowered(job.url), Lowered(sourceConfig.domainHint))),
           14)

\* readAxiosError
readAxiosError(outcome) ==
    IF outcome = "timeout" THEN "timeout of 20000ms exceeded" ELSE "500 request_failed"

\* the status of a provider without API key reported as enabled
disabledStatusEnabled(provider, error) ==
    [provider |-> provider, enabled |-> TRUE, success |-> FALSE, jobs |-> 0, error |-> error]

\* the status of a provider without API key, lines 246-257, 386-397
disabledStatus(provider, error) ==
    [provider |-> provider, enabled |-> FALSE, success |-> FALSE, jobs |-> 0, error |-> error]

\* the status of a provider that answered, lines 356-364, 493-501
answeredStatus(provider, jobs) ==
    [provider |-> provider, enabled |-> TRUE, success |-> Len(jobs) > 0, jobs |-> Len(jobs),
     error |-> "undefined"]

\* the status of a provider whose request failed, lines 366-375, 459-469, 503-512
errorStatus(provider, error) ==
    [provider |-> provider, enabled |-> TRUE, success |-> FALSE, jobs |-> 0, error |-> error]

\* the status of the scraper that reports a success whatever it found
scrapeStatusAlwaysOk(byQuery) ==
    [provider |-> "Public Scraping", enabled |-> TRUE, success |-> TRUE,
     jobs |-> Len(flat(byQuery)), error |-> "undefined"]

\* lines 102-108: the status of the scraper
scrapeStatus(byQuery) ==
    [provider |-> "Public Scraping", enabled |-> TRUE, success |-> Len(flat(byQuery)) > 0,
     jobs |-> Len(flat(byQuery)),
     error |-> IF Len(flat(byQuery)) > 0 THEN "undefined" ELSE "Sin resultados"]

-----------------------------------------------------------------------------
(* JobSearchService: the provider tasks of one searchPublicJobs call *)

NoStatus == [provider |-> "none", enabled |-> FALSE, success |-> FALSE, jobs |-> 0,
             error |-> "undefined"]

\* a provider task: its promise's state, the request it waits for, the answers
\* it has, the outcomes of its requests so far, and what it resolved with
NoTask == [state |-> "none", step |-> 0, pages |-> <<>>, log |-> <<>>, jobs |-> <<>>,
           status |-> NoStatus]

started(task) == [task EXCEPT !.state = "pending", !.step = 1]

fulfilled(task, jobs, status) ==
    [task EXCEPT !.state = "fulfilled", !.jobs = jobs, !.status = status]

\* a provider task that lets the error of its request escape
rethrow(task, provider, error) == [task EXCEPT !.state = "rejected"]

\* lines 365-376, 502-513: the catch block of a provider task
catch(task, provider, error) == fulfilled(task, <<>>, errorStatus(provider, error))

\* line 266-300: the number of request bodies of TheirStack
theirStackBodies(keywords, cityOrRegion) ==
    1 + (IF Len(slice0(keywords, 12)) >= 6 THEN 1 ELSE 0)
      + (IF trim(cityOrRegion) # <<>> THEN 1 ELSE 0)

\* the number of search bodies of CoreSignal, lines 415-442
CoreSignalBodies == 4
\* providerLimit
providerLimit == 25

\* extractTheirStackRecords of an answer
theirStackRecords(outcome, page) == IF outcome = "ok" THEN page ELSE <<>>

\* lines 347-364: the answers are mapped, merged and returned
theirStackDone(task) ==
    LET jobs == slice0(mergeAndDedupe(mapRecords(flat(task.pages), srcTheirStack)), 180)
    IN  fulfilled(task, jobs, answeredStatus("TheirStack", jobs))

\* searchTheirStackJobs, lines 302-376: one request body answered
theirStackStep(task, outcome, bodies) ==
    LET logged == [task EXCEPT !.log = Append(@, outcome)]
        page == theirStackRecords(outcome, TheirStackPages[Min(task.step, 2)])
        answered == [logged EXCEPT !.pages = Append(@, page)]
        next(t) == IF t.step >= bodies THEN theirStackDone(t) ELSE [t EXCEPT !.step = @ + 1]
    IN  IF task.step = 1
        THEN (IF IsFailure(outcome)
              THEN catch(logged, "TheirStack", readAxiosError(outcome))
              ELSE next(answered))
        ELSE (IF IsFailure(outcome) THEN next(logged) ELSE next(answered))

\* lines 472-501: the detail records are fetched, mapped, merged and returned
coreSignalCollected(task, outcome) ==
    LET records == IF outcome = "ok" THEN CoreSignalDetails ELSE Tail(CoreSignalDetails)
        jobs == slice0(mergeAndDedupe(mapRecords(records, srcCoreSignal)), providerLimit)
    IN  fulfilled(task, jobs, answeredStatus("CoreSignal", jobs))

\* searchCoreSignalJobs, lines 412-513: one request answered; the search bodies
\* are tried in turn until one returns ids, then the details are collected
coreSignalStep(task, outcome) ==
    LET logged == [task EXCEPT !.log = Append(@, outcome)] IN
    IF IsFailure(outcome) THEN catch(logged, "CoreSignal", readAxiosError(outcome))
    ELSE IF task.step > CoreSignalBodies THEN coreSignalCollected(logged, outcome)
    ELSE IF outcome = "ok" THEN [logged EXCEPT !.step = CoreSignalBodies + 1]
    ELSE IF task.step < CoreSignalBodies THEN [logged EXCEPT !.step = @ + 1]
    ELSE fulfilled(logged, <<>>, errorStatus("CoreSignal", "0 IDs returned by search/filter"))

\* the result page the search engine has for a query
pageFor(query, seeds) ==
    IF query.seed # seeds[1] THEN <<>>
    ELSE IF query.source.source = srcLinkedIn /\ query.word = "empleo" THEN LinkedInPage
    ELSE IF query.source.source = srcIndeed /\ query.word = "jobs" THEN IndeedPage
    ELSE <<>>

\* searchDuckDuckGo: what the call for a query resolves with
searchDuckDuckGo(query, seeds, outcome) ==
    IF outcome = "ok" THEN scrapeJobs(pageFor(query, seeds), query.source) ELSE <<>>

\* Promise.all of line 80: rejected as soon as a task is, fulfilled when all are
promiseAll(ts, cs, scrape, queries) ==
    IF ts.state = "rejected" \/ cs.state = "rejected" THEN "rejected"
    ELSE IF ts.state = "fulfilled" /\ cs.state = "fulfilled" /\ scrape.next > Len(queries)
    THEN "fulfilled"
    ELSE "pending"

-----------------------------------------------------------------------------
(* JobSearchService.searchPublicJobs *)

ExpJunior ==
    [level |-> "junior", prefersInternships |-> FALSE,
     seniorityTerms |-> <<<<"j","u","n","i","o","r">>, <<"e","n","t","r","y"," ","l","e","v","e","l">>, <<"a","s","i","s","t","e","n","t","e">>, <<"a","n","a","l","i","s","t","a"," ","j","u","n","i","o","r">>>>]

ArgsNothing ==
    [keywords |-> <<>>, location |-> <<>>, country |-> <<>>, desiredRole |-> <<>>,
     experience |-> NoExperience]
ArgsLima ==
    [keywords |-> <<kwPythonRaw, kwSql, <<"P","r","o","y","e","c","t","o">>>>, location |-> <<" ","L","i","m","a"," ">>,
     country |-> txtPeru, desiredRole |-> <<>>, experience |-> NoExperience]
ArgsJunior ==
    [keywords |-> <<kwPythonRaw>>, location |-> <<>>, country |-> <<>>,
     desiredRole |-> <<"A","n","a","l","y","s","t">>, experience |-> ExpJunior]

\* the calls of searchPublicJobs
SearchArgs == { ArgsNothing, ArgsLima, ArgsJunior }

\* lines 70-79 and 96: what the call derives from its arguments before and after the wait
planOf(args) ==
    LET cleanedKeywords == cleanKeywords(args.keywords)
        enrichedKeywords == enrichKeywordsWithExperience(cleanedKeywords, args.experience)
        defaultSeeds == defaultSeedsOf(enrichedKeywords)
        countryText == resolveCountry(args.country, args.location)
        cityOrRegion == trim(args.location)
    IN  [enrichedKeywords |-> enrichedKeywords,
         defaultSeeds |-> defaultSeeds,
         countryText |-> countryText,
         cityOrRegion |-> cityOrRegion,
         queries |-> buildQueries(defaultSeeds, locationTextOf(cityOrRegion, countryText)),
         fallback |-> buildPortalSearchFallback(enrichedKeywords, countryText, cityOrRegion)]

planTable == [args \in SearchArgs |-> planOf(args)]

\* lines 86-114: the result, once the three provider results are there
resultOf(args, plan, theirStackResult, coreSignalResult, byQuery) ==
    LET merged == theirStackResult.jobs \o coreSignalResult.jobs \o flat(byQuery)
        dedup == mergeAndDedupe(merged)
        filtered == SelectSeq(dedup, LAMBDA job :
                        isJobInCountry(job, plan.countryText, plan.cityOrRegion))
        base == IF filtered # <<>> THEN filtered ELSE dedup
        ranked == rank(base, plan.enrichedKeywords, plan.countryText, plan.cityOrRegion,
                       args.experience)
        finalJobs == slice0(mergeAndDedupe(ranked \o plan.fallback), 250)
    IN  [thrown |-> FALSE, merged |-> merged, ranked |-> ranked, jobs |-> finalJobs,
         providers |-> <<theirStackResult.status, coreSignalResult.status,
                         scrapeStatus(byQuery)>>]

NoResult == [thrown |-> FALSE, merged |-> <<>>, ranked |-> <<>>, jobs |-> <<>>, providers |-> <<>>]
Thrown == [NoResult EXCEPT !.thrown = TRUE]

SearchFrame == UNCHANGED <<memVars, usageVars, matchVars, fnVars, ragVars>>

\* the service is constructed with or without each API key (lines 50, 52)
SearchInit ==
    /\ env \in [theirStackKey : BOOLEAN, coreSignalKey : BOOLEAN]
    /\ sPc = "idle"
    /\ sArgs = ArgsNothing
    /\ tsTask = NoTask
    /\ csTask = NoTask
    /\ ddg = [next |-> 1, byQuery |-> <<>>]
    /\ sOut = NoResult

\* lines 63-84: the call starts the provider tasks and waits for them; a
\* provider without key has resolved by then
searchPublicJobs(args) ==
    /\ sPc = "idle"
    /\ sPc' = "awaiting"
    /\ sArgs' = args
    /\ tsTask' = IF env.theirStackKey THEN started(NoTask)
                 ELSE fulfilled(NoTask, <<>>,
                                disabledStatus("TheirStack", "THEIRSTACK_API_KEY no configurada"))
    /\ csTask' = IF env.coreSignalKey THEN started(NoTask)
                 ELSE fulfilled(NoTask, <<>>,
                                disabledStatus("CoreSignal", "CORESIGNAL_API_KEY no configurada"))
    /\ ddg' = [next |-> 1, byQuery |-> <<>>]
    /\ UNCHANGED <<env, sOut>>
    /\ SearchFrame

\* a request of searchTheirStackJobs is answered
theirStackResponds(outcome) ==
    /\ tsTask.state = "pending"
    /\ tsTask' = theirStackStep(tsTask, outcome,
                                theirStackBodies(planTable[sArgs].enrichedKeywords,
                                                 planTable[sArgs].cityOrRegion))
    /\ UNCHANGED <<env, sPc, sArgs, csTask, ddg, sOut>>
    /\ SearchFrame

\* a request of searchCoreSignalJobs is answered
coreSignalResponds(outcome) ==
    /\ csTask.state = "pending"
    /\ csTask' = coreSignalStep(csTask, outcome)
    /\ UNCHANGED <<env, sPc, sArgs, tsTask, ddg, sOut>>
    /\ SearchFrame

\* a searchDuckDuckGo call is answered; the calls are independent and
\* Promise.all keeps their results in the order of the queries, so they are
\* taken in that order
scrapeResponds(outcome) ==
    /\ sPc # "idle"
    /\ ddg.next <= Len(planTable[sArgs].queries)
    /\ ddg' = [next |-> ddg.next + 1,
               byQuery |-> Append(ddg.byQuery,
                                  searchDuckDuckGo(planTable[sArgs].queries[ddg.next],
                                                   planTable[sArgs].defaultSeeds, outcome))]
    /\ UNCHANGED <<env, sPc, sArgs, tsTask, csTask, sOut>>
    /\ SearchFrame

\* lines 80-114: the wait of line 80 ends, the results are merged, ranked and returned
searchSettles ==
    /\ sPc = "awaiting"
    /\ promiseAll(tsTask, csTask, ddg, planTable[sArgs].queries) # "pending"
    /\ sPc' = "done"
    /\ sOut' = IF promiseAll(tsTask, csTask, ddg, planTable[sArgs].queries) = "rejected"
               THEN Thrown
               ELSE resultOf(sArgs, planTable[sArgs], tsTask, csTask, ddg.byQuery)
    /\ UNCHANGED <<env, sArgs, tsTask, csTask, ddg>>
    /\ SearchFrame

SearchNext ==
    \/ \E args \in SearchArgs : searchPublicJobs(args)
    \/ \E outcome \in Outcomes : theirStackResponds(outcome)
    \/ \E outcome \in Outcomes : coreSignalResponds(outcome)
    \/ \E outcome \in Outcomes : scrapeResponds(outcome)
    \/ searchSettles

-----------------------------------------------------------------------------
(* UsageService and JobService.generateApplication *)

\* const FREE_LIMIT = 3
FREE_LIMIT == 3

\* concurrent generateApplication requests
NumGenReq == 2
\* generateApplication calls in one run
MaxGenCalls == 5

GenReqs == 1..NumGenReq
UserIds == {"u1", "u2"}
Plans == {"free", "premium"}

\* what scrapeJob and the generator can come back with
ScrapeOutcomes == {"ok", "short_text"}
GeneratorOutcomes == {"ok", "error"}

NoGenReq == [op |-> "none"]
NoUsageDb == [none |-> TRUE]

\* getOrCreate, lines 1103-1107: the fresh record (its freeUses)
FreshUsage == 0

\* db[userId] || fresh record, line 1115
usageOf(db, userId) == IF userId \in DOMAIN db THEN db[userId] ELSE FreshUsage

\* generateApplication, line 274: the quota check
quotaExhausted(plan, freeUses) == plan = "free" /\ freeUses >= FREE_LIMIT

\* generateApplication, line 286: too little text scraped
tooShort(outcome) == outcome = "short_text"

UsageFrame == UNCHANGED <<memVars, searchVars, matchVars, fnVars, ragVars>>

\* data/usage.json is not yet written
UsageInit ==
    /\ usageFile = [exists |-> FALSE, records |-> EmptyMap]
    /\ gPc = [g \in GenReqs |-> "idle"]
    /\ gReq = [g \in GenReqs |-> NoGenReq]
    /\ gDb = [g \in GenReqs |-> NoUsageDb]
    /\ completed = [u \in UserIds |-> 0]
    /\ gCalls = 0

\* the request ends: with an error, or with a result
genEnds(g, ok) ==
    /\ gPc' = [gPc EXCEPT ![g] = "idle"]
    /\ gReq' = [gReq EXCEPT ![g] = NoGenReq]
    /\ gDb' = [gDb EXCEPT ![g] = NoUsageDb]
    /\ completed' = IF ok /\ gReq[g].plan = "free"
                    THEN [completed EXCEPT ![gReq[g].userId] = @ + 1]
                    ELSE completed

\* getOrCreate has returned the record to generateApplication: the quota check
\* of line 274, or the return of lines 306-319
getOrCreateReturns(g, freeUses) ==
    IF gReq[g].stage = "check"
    THEN IF quotaExhausted(gReq[g].plan, freeUses)
         THEN genEnds(g, FALSE)
         ELSE /\ gPc' = [gPc EXCEPT ![g] = "scrapeJob"]
              /\ gDb' = [gDb EXCEPT ![g] = NoUsageDb]
              /\ UNCHANGED <<gReq, completed>>
    ELSE genEnds(g, TRUE)

\* readDb has resolved with db: getOrCreate (lines 1102-1110) or
\* incrementFreeUse (lines 1115-1125) goes on
afterUsageRead(g, db) ==
    IF gReq[g].stage = "increment"
    THEN /\ gDb' = [gDb EXCEPT ![g] = Put(db, gReq[g].userId, usageOf(db, gReq[g].userId) + 1)]
         /\ gPc' = [gPc EXCEPT ![g] = "writeDb"]
         /\ UNCHANGED <<gReq, completed>>
    ELSE IF gReq[g].userId \notin DOMAIN db
    THEN /\ gDb' = [gDb EXCEPT ![g] = Put(db, gReq[g].userId, FreshUsage)]
         /\ gPc' = [gPc EXCEPT ![g] = "writeDb"]
         /\ UNCHANGED <<gReq, completed>>
    ELSE getOrCreateReturns(g, db[gReq[g].userId])

\* generateApplication is called and awaits getOrCreate; overlapped notes for
\* each call whether another call has run during it
generateApplication(g, userId, plan) ==
    /\ gPc[g] = "idle"
    /\ gCalls < MaxGenCalls
    /\ gCalls' = gCalls + 1
    /\ gPc' = [gPc EXCEPT ![g] = "readDb"]
    /\ gReq' = [o \in GenReqs |->
                   IF o = g
                   THEN [op |-> "generate", userId |-> userId, plan |-> plan, stage |-> "check",
                         overlapped |-> \E p \in GenReqs \ {g} : gPc[p] # "idle"]
                   ELSE IF gPc[o] # "idle" THEN [gReq[o] EXCEPT !.overlapped = TRUE]
                   ELSE gReq[o]]
    /\ UNCHANGED <<usageFile, gDb, completed>>
    /\ UsageFrame

\* another request is writing the file (fs.writeFile truncates, then writes)
UsageWriteInProgress(g) == \E o \in GenReqs \ {g} : gPc[o] \in {"writeDb", "readDbCatch"}

\* UsageService.readDb: the file is read and parsed
usageReadDb(g) ==
    /\ gPc[g] = "readDb"
    /\ usageFile.exists
    /\ afterUsageRead(g, usageFile.records)
    /\ UNCHANGED <<usageFile, gCalls>>
    /\ UsageFrame

\* UsageService.readDb: readFile or JSON.parse throws
usageReadDbFails(g) ==
    /\ gPc[g] = "readDb"
    /\ ~usageFile.exists \/ UsageWriteInProgress(g)
    /\ gPc' = [gPc EXCEPT ![g] = "readDbCatch"]
    /\ UNCHANGED <<usageFile, gReq, gDb, completed, gCalls>>
    /\ UsageFrame

\* UsageService.readDb, the catch block: '{}' is written and {} returned
usageReadDbCatch(g) ==
    /\ gPc[g] = "readDbCatch"
    /\ usageFile' = [exists |-> TRUE, records |-> EmptyMap]
    /\ afterUsageRead(g, EmptyMap)
    /\ UNCHANGED gCalls
    /\ UsageFrame

\* UsageService.writeDb: the whole db the request holds is written; then
\* getOrCreate returns its record, or incrementFreeUse returns and
\* generateApplication awaits the second getOrCreate
usageWriteDb(g) ==
    /\ gPc[g] = "writeDb"
    /\ usageFile' = [exists |-> TRUE, records |-> gDb[g]]
    /\ IF gReq[g].stage = "increment"
       THEN /\ gReq' = [gReq EXCEPT ![g].stage = "final"]
            /\ gPc' = [gPc EXCEPT ![g] = "readDb"]
            /\ gDb' = [gDb EXCEPT ![g] = NoUsageDb]
            /\ UNCHANGED completed
       ELSE getOrCreateReturns(g, gDb[g][gReq[g].userId])
    /\ UNCHANGED gCalls
    /\ UsageFrame

\* lines 285-288: scrapeJob resolves
scrapeJob(g, outcome) ==
    /\ gPc[g] = "scrapeJob"
    /\ IF tooShort(outcome)
       THEN genEnds(g, FALSE)
       ELSE /\ gPc' = [gPc EXCEPT ![g] = "generate"]
            /\ UNCHANGED <<gReq, gDb, completed>>
    /\ UNCHANGED <<usageFile, gCalls>>
    /\ UsageFrame

\* lines 290-304: the generator resolves or rejects; a free request goes on to
\* incrementFreeUse, a premium one to the second getOrCreate
generateJobApplication(g, outcome) ==
    /\ gPc[g] = "generate"
    /\ IF outcome = "error"
       THEN genEnds(g, FALSE)
       ELSE /\ gPc' = [gPc EXCEPT ![g] = "readDb"]
            /\ gReq' = [gReq EXCEPT ![g].stage =
                            IF gReq[g].plan = "free" THEN "increment" ELSE "final"]
            /\ UNCHANGED <<gDb, completed>>
    /\ UNCHANGED <<usageFile, gCalls>>
    /\ UsageFrame

UsageNext ==
    \E g \in GenReqs :
        \/ \E userId \in UserIds, plan \in Plans : generateApplication(g, userId, plan)
        \/ usageReadDb(g)
        \/ usageReadDbFails(g)
        \/ usageReadDbCatch(g)
        \/ usageWriteDb(g)
        \/ \E outcome \in ScrapeOutcomes : scrapeJob(g, outcome)
        \/ \E outcome \in GeneratorOutcomes : generateJobApplication(g, outcome)

-----------------------------------------------------------------------------
(* CvParserService.parseCv, JobService.dedupeJobs and JobService.matchJobsByCv *)

\* the class [a-z0-9+#.\s-] of JobService.normalize
IsJobChar(c) ==
    \/ \E i \in 1..26 : LowerChars[i] = c
    \/ \E i \in 1..Len(Digits) : Digits[i] = c
    \/ c \in {"+", "#", ".", "-"}
    \/ IsSpace(c) \/ c \in {"NL", "CR"}

\* JobService.normalize: as JobSearchService.normalize, with every character
\* outside [a-z0-9+#.\s-] replaced by a space before the white space is collapsed
jobNormalize(value) ==
    LET stripped == StripMarks(Decomposed(Lowered(value)))
        replaced == [i \in 1..Len(stripped) |->
                        IF IsJobChar(stripped[i]) THEN stripped[i] ELSE " "]
    IN  trim(CollapseSpaces(replaced))

\* the key of dedupeJobs: normalized url, title and company joined by '|'
jobKey(job) ==
    jobNormalize(job.url) \o <<"|">> \o jobNormalize(job.title) \o <<"|">> \o jobNormalize(job.company)

\* dedupeJobs: the first record of every key, in the order of insertion
RECURSIVE dedupeFrom(_, _)
dedupeFrom(jobs, seen) ==
    IF jobs = <<>> THEN <<>>
    ELSE IF jobKey(Head(jobs)) \in seen THEN dedupeFrom(Tail(jobs), seen)
    ELSE <<Head(jobs)>> \o dedupeFrom(Tail(jobs), seen \cup {jobKey(Head(jobs))})

dedupeJobs(jobs) == dedupeFrom(jobs, {})

\* parseCv: the typed text trimmed, joined to the text of the file (if any)
\* by a line feed, carriage returns made line feeds, trimmed
parseCv(inputText, fromFile) ==
    LET typed == trim(inputText)
        parts == SelectSeq(<<typed, fromFile>>, LAMBDA p : p # <<>>)
        merged == join(parts, <<"NL">>)
        replaced == [i \in 1..Len(merged) |-> IF merged[i] = "CR" THEN "NL" ELSE merged[i]]
    IN  trim(replaced)

\* if (cvText.length < 80) throw new BadRequestException(...)
MinCvLength == 80

\* the resume's length test left out
cvAlwaysReadable(cvText) == FALSE

\* line 352: too little content was read from the CV
cvTooShort(cvText) == Len(cvText) < MinCvLength

\* matchJobsByCv calls in one run
MaxMatchCalls == 2

cvPython == <<"P","y","t","h","o","n"," ","d","e","v","e","l","o","p","e","r"," ","c","o","n"," ","e","x","p","e","r","i","e","n","c","i","a"," ","e","n"," ","S","Q","L"," ","y"," ","a","n","a","l","i","s","i","s"," ","d","e"," ","d","a","t","o","s"," ","e","n"," ","L","i","m","a",","," ","P","e","r","u","."," ","E","s","t","u","d","i","a","n","t","e"," ","d","e"," ","i","n","g","e","n","i","e","r","i","a",".">>
roleDataAnalyst == <<"D","a","t","a"," ","A","n","a","l","y","s","t">>

\* a request body: MatchCvJobsDto
DtoEmpty == [cvText |-> <<>>, desiredRole |-> <<>>, location |-> <<>>, country |-> <<>>]
DtoBlank == [cvText |-> <<" ", " ">>, desiredRole |-> <<>>, location |-> <<>>, country |-> <<>>]
DtoLima == [cvText |-> cvPython, desiredRole |-> <<>>, location |-> <<"L","i","m","a">>, country |-> txtPeru]
DtoAnywhere == [cvText |-> cvPython, desiredRole |-> <<>>, location |-> <<>>, country |-> <<>>]
MatchDtos == { DtoEmpty, DtoBlank, DtoLima, DtoAnywhere }
DtoLimaOnly == [DtoAnywhere EXCEPT !.location = <<"L","i","m","a">>]
DtoPeruOnly == [DtoAnywhere EXCEPT !.country = txtPeru]
\* the request bodies with and without country and location
CountryDtos == { DtoLima, DtoAnywhere, DtoLimaOnly, DtoPeruOnly }

\* what the analysis of a readable CV yields (lines 358-367): the insights of
\* the language model or of its fallback, the tokens found in the text, the
\* best-fit role of the trained profiles (<<>> when there is none) and the
\* experience profile inferred
AnalysisPython ==
    [keywords |-> <<kwPython, kwSql>>, cvSkillTokens |-> <<kwPython, kwSql>>,
     cvTrainedSkillTokens |-> <<>>, roles |-> <<>>, bestFitRole |-> <<>>,
     experience |-> ExpJunior]
AnalysisWithRole == [AnalysisPython EXCEPT !.bestFitRole = roleDataAnalyst]
AnalysisNothing ==
    [keywords |-> <<>>, cvSkillTokens |-> <<>>, cvTrainedSkillTokens |-> <<>>,
     roles |-> <<>>, bestFitRole |-> <<>>, experience |-> ExpJunior]
Analyses == { AnalysisPython, AnalysisWithRole, AnalysisNothing }

\* how the scraped pages answer during one searchPublicJobs call
MatchAnswers == { "ok", "http_error" }

\* the text of a level of ExperienceProfile
levelText(level) ==
    IF level = "intern" THEN <<"i","n","t","e","r","n">>
    ELSE IF level = "junior" THEN <<"j","u","n","i","o","r">>
    ELSE IF level = "mid" THEN <<"m","i","d">>
    ELSE <<"s","e","n","i","o","r">>

\* line 363: dto.desiredRole?.trim() || insights.roles[0] || ''
desiredRoleOf(dto, analysis) ==
    IF trim(dto.desiredRole) # <<>> THEN trim(dto.desiredRole)
    ELSE IF analysis.roles # <<>> THEN analysis.roles[1]
    ELSE <<>>

\* lines 364-365: candidateSkills, or cvSkillTokens when there are none
apiQueryKeywordsOf(analysis) ==
    LET candidateSkills ==
            uniq(analysis.cvSkillTokens \o analysis.cvTrainedSkillTokens \o analysis.keywords)
    IN  IF candidateSkills # <<>> THEN candidateSkills ELSE analysis.cvSkillTokens

\* line 368: dto.country?.trim() || dto.location?.trim() || 'Peru'
matchCountryOf(dto) ==
    IF trim(dto.country) # <<>> THEN trim(dto.country)
    ELSE IF trim(dto.location) # <<>> THEN trim(dto.location)
    ELSE txtPeru

\* lines 370-377: the arguments of the primary retrieval; the sixth one,
\* learningProfile, has no parameter in searchPublicJobs to receive it
primaryArgs(dto, analysis, learningProfile) ==
    [keywords |-> apiQueryKeywordsOf(analysis), location |-> dto.location,
     country |-> dto.country, desiredRole |-> desiredRoleOf(dto, analysis),
     experience |-> analysis.experience, learningProfile |-> learningProfile]

\* lines 380-387: the arguments of the retrieval for the best-fit role
roleDrivenArgs(dto, analysis, learningProfile) ==
    [keywords |-> slice0(<<analysis.bestFitRole>> \o apiQueryKeywordsOf(analysis), 20),
     location |-> dto.location, country |-> dto.country,
     desiredRole |-> analysis.bestFitRole,
     experience |-> analysis.experience, learningProfile |-> learningProfile]

\* lines 63-69: the five parameters searchPublicJobs declares; a sixth
\* argument of a call is bound to none of them
parametersOf(args) ==
    [keywords |-> args.keywords, location |-> args.location, country |-> args.country,
     desiredRole |-> args.desiredRole, experience |-> args.experience]

\* one whole searchPublicJobs call of the service constructed without API
\* keys, every scraped page answering alike
searchWith(parameters, answer) ==
    LET plan == planOf(parameters)
        theirStackResult ==
            fulfilled(NoTask, <<>>,
                      disabledStatus("TheirStack", "THEIRSTACK_API_KEY no configurada"))
        coreSignalResult ==
            fulfilled(NoTask, <<>>,
                      disabledStatus("CoreSignal", "CORESIGNAL_API_KEY no configurada"))
        byQuery == [i \in 1..Len(plan.queries) |->
                       searchDuckDuckGo(plan.queries[i], plan.defaultSeeds, answer)]
    IN  resultOf(parameters, plan, theirStackResult, coreSignalResult, byQuery)

\* the parameters of the retrievals of the requests
MatchSearches ==
    {parametersOf(primaryArgs(dto, analysis, EmptyProfile)) :
        dto \in MatchDtos \cup CountryDtos, analysis \in Analyses}
    \cup {parametersOf(roleDrivenArgs(dto, analysis, EmptyProfile)) :
            dto \in MatchDtos \cup CountryDtos, analysis \in Analyses}

searchTable == [call \in MatchSearches \X MatchAnswers |-> searchWith(call[1], call[2])]

\* searchPublicJobs called with args
searchOnce(args, answer) == searchTable[<<parametersOf(args), answer>>]

\* { jobs: [], providers: [] }
NoSearch == [jobs |-> <<>>, providers |-> <<>>]

NoMatchReq == [none |-> TRUE]
NoMatchOut == [status |-> "none"]
BadRequest == [status |-> "BadRequestException", dto |-> DtoEmpty, fromFile |-> <<>>]

\* the files uploaded with a request: none, or one with this text
CvFiles == { <<>>, cvPython }

MatchFrame == UNCHANGED <<memPc, memReq, memDb, memClock, memOut, searchVars, usageVars, fnVars, ragVars>>

MatchInit ==
    /\ mPc = "idle"
    /\ mReq = NoMatchReq
    /\ mOut = NoMatchOut
    /\ mCalls = 0

\* lines 350-367: the CV is parsed; a text too short ends the request with
\* BadRequestException, otherwise the text is analysed
matchJobsByCv(dto, fromFile, analysis) ==
    /\ mPc = "idle"
    /\ mCalls < MaxMatchCalls
    /\ mCalls' = mCalls + 1
    /\ IF cvTooShort(parseCv(dto.cvText, fromFile))
       THEN /\ mPc' = "idle"
            /\ mReq' = NoMatchReq
            /\ mOut' = [BadRequest EXCEPT !.dto = dto, !.fromFile = fromFile]
       ELSE /\ mPc' = "getProfile"
            /\ mReq' = [dto |-> dto, fromFile |-> fromFile, analysis |-> analysis,
                        learningProfile |-> EmptyProfile,
                        answers |-> <<>>, primarySearch |-> NoSearch,
                        roleDrivenSearch |-> NoSearch, uniqueJobs |-> <<>>]
            /\ mOut' = NoMatchOut
    /\ UNCHANGED memFile
    /\ MatchFrame

\* line 369: getProfile(country, experienceProfile.level); its readDb creates
\* the file when there is none
matchGetProfile ==
    /\ mPc = "getProfile"
    /\ mReq' = [mReq EXCEPT !.learningProfile =
                   profileOf(IF memFile.exists THEN memFile.buckets ELSE InitialDb,
                             matchCountryOf(mReq.dto), levelText(mReq.analysis.experience.level))]
    /\ memFile' = IF memFile.exists THEN memFile ELSE [exists |-> TRUE, buckets |-> InitialDb]
    /\ mPc' = "primarySearch"
    /\ UNCHANGED <<mOut, mCalls>>
    /\ MatchFrame

\* lines 370-377: the primary retrieval
matchPrimarySearch(answer) ==
    /\ mPc = "primarySearch"
    /\ mReq' = [mReq EXCEPT
                   !.primarySearch =
                       searchOnce(primaryArgs(mReq.dto, mReq.analysis, mReq.learningProfile),
                                  answer),
                   !.answers = Append(mReq.answers, answer)]
    /\ mPc' = IF mReq.analysis.bestFitRole # <<>> THEN "roleDrivenSearch" ELSE "learn"
    /\ UNCHANGED <<memFile, mOut, mCalls>>
    /\ MatchFrame

\* lines 378-388: the retrieval for the best-fit role, when there is one
matchRoleDrivenSearch(answer) ==
    /\ mPc = "roleDrivenSearch"
    /\ mReq' = [mReq EXCEPT
                   !.roleDrivenSearch =
                       searchOnce(roleDrivenArgs(mReq.dto, mReq.analysis, mReq.learningProfile),
                                  answer),
                   !.answers = Append(mReq.answers, answer)]
    /\ mPc' = "learn"
    /\ UNCHANGED <<memFile, mOut, mCalls>>
    /\ MatchFrame

\* lines 390-391: dedupeJobs over both lists, then learnFromResults (no other
\* request is using the store)
matchLearn ==
    /\ mPc = "learn"
    /\ mReq' = [mReq EXCEPT !.uniqueJobs =
                   dedupeJobs(mReq.primarySearch.jobs \o mReq.roleDrivenSearch.jobs)]
    /\ memFile' =
           IF learnGuard(mReq.analysis.keywords, mReq'.uniqueJobs) THEN memFile
           ELSE [exists |-> TRUE,
                 buckets |-> learnDb(memFile.buckets,
                                     buildBucketKey(matchCountryOf(mReq.dto),
                                                    levelText(mReq.analysis.experience.level)),
                                     mReq.analysis.keywords, mReq'.uniqueJobs, mCalls)]
    /\ mPc' = "analysis"
    /\ UNCHANGED <<mOut, mCalls>>
    /\ MatchFrame

\* lines 392-435: the analysis is built from uniqueJobs and the answer returned
matchReturns ==
    /\ mPc = "analysis"
    /\ mOut' = [status |-> "ok", dto |-> mReq.dto, fromFile |-> mReq.fromFile,
                analysis |-> mReq.analysis,
                learningProfile |-> mReq.learningProfile, answers |-> mReq.answers,
                primaryRanked |-> mReq.primarySearch.ranked,
                extractedKeywords |-> mReq.analysis.keywords,
                totalJobsFound |-> Len(mReq.uniqueJobs),
                jobs |-> mReq.uniqueJobs]
    /\ mReq' = NoMatchReq
    /\ mPc' = "idle"
    /\ UNCHANGED <<memFile, mCalls>>
    /\ MatchFrame

MatchNext ==
    \/ \E dto \in MatchDtos, fromFile \in CvFiles, analysis \in Analyses :
          matchJobsByCv(dto, fromFile, analysis)
    \/ matchGetProfile
    \/ \E answer \in MatchAnswers : matchPrimarySearch(answer)
    \/ \E answer \in MatchAnswers : matchRoleDrivenSearch(answer)
    \/ matchLearn
    \/ matchReturns

\* the requests with and without country and location, the CV pasted
MatchCountryNext ==
    \/ \E dto \in CountryDtos, analysis \in Analyses : matchJobsByCv(dto, <<>>, analysis)
    \/ matchGetProfile
    \/ \E answer \in MatchAnswers : matchPrimarySearch(answer)
    \/ \E answer \in MatchAnswers : matchRoleDrivenSearch(answer)
    \/ matchLearn
    \/ matchReturns

-----------------------------------------------------------------------------
(* Functions of JobSearchService called on their own *)

NoCall == [fn |-> "none"]
NoReturn == [fn |-> "none"]

FnFrame == UNCHANGED <<memVars, searchVars, usageVars, matchVars, fnIn, ragVars>>

\* the length of the lists mergeAndDedupe is called with
MaxMergeLen == 3

\* records as the providers' mappers make them: u is the URL, ts the time of
\* publication
MergeItem(source, u, ts, score) ==
    [title |-> <<"D","e","v">>, company |-> <<"A","c","m","e">>, location |-> txtPeru,
     source |-> source, url |-> u, tags |-> <<>>, score |-> score,
     publishedAt |-> IF ts = 0 THEN "Sin fecha" ELSE "label", publishedTs |-> ts]

MergeItems ==
    { MergeItem(srcLinkedIn, <<"h","t","t","p",":","/","/","x","/","1">>, 0, 10),
      MergeItem(srcLinkedIn, <<"h","t","t","p",":","/","/","x","/","1">> \o <<"?","a","=","1">>, 900, 30),
      MergeItem(<<"L","I","N","K","E","D","I","N">>, <<"H","T","T","P",":","/","/","X","/","1">> \o <<"?","B","=","2">>, 0, 20),
      MergeItem(srcIndeed, <<"h","t","t","p",":","/","/","x","/","1">>, 950, 20),
      MergeItem(srcLinkedIn, <<"h","t","t","p",":","/","/","x","/","2">>, 0, 20),
      MergeItem(srcIndeed, <<>>, 990, 40) }

Lists(items, n) == UNION { [1..k -> items] : k \in 0..n }

MergeInputs == { [fn |-> "mergeAndDedupe", items |-> l] : l \in Lists(MergeItems, MaxMergeLen) }

\* mergeAndDedupe(items) is called and returns
callMergeAndDedupe ==
    /\ fnIn.fn = "mergeAndDedupe"
    /\ fnOut = NoReturn
    /\ fnOut' = [fn |-> "mergeAndDedupe", value |-> mergeAndDedupe(fnIn.items)]
    /\ FnFrame

MergeNext == callMergeAndDedupe

-----------------------------------------------------------------------------
(* JobSearchService: the record made of a scraped result, and its score *)

\* the class [a-z0-9+#.] of extractTags
IsTagChar(c) ==
    \/ \E i \in 1..26 : LowerChars[i] = c
    \/ \E i \in 1..Len(Digits) : Digits[i] = c
    \/ c \in {"+", "#", "."}

\* text.match(/[a-z0-9+#.]{4,}/g): the maximal runs of four characters or more
tagWords(text) ==
    LET starts == {i \in 1..Len(text) :
                      IsTagChar(text[i]) /\ (i = 1 \/ ~IsTagChar(text[i - 1]))}
        endOf(i) == CHOOSE j \in i..Len(text) :
                        /\ \A k \in i..j : IsTagChar(text[k])
                        /\ (j = Len(text) \/ ~IsTagChar(text[j + 1]))
        long == {i \in starts : endOf(i) - i + 1 >= 4}
        nth(n) == CHOOSE i \in long : Cardinality({j \in long : j < i}) = n - 1
    IN  [n \in 1..Cardinality(long) |-> SubSeq(text, nth(n), endOf(nth(n)))]

tagBlacklist == {<<"e","m","p","l","e","o">>, <<"t","r","a","b","a","j","o">>, <<"j","o","b","s">>, <<"j","o","b">>, <<"r","e","m","o","t","e">>, <<"r","e","m","o","t","o">>, <<"t","i","t","u","l","o">>, <<"d","e","s","c","r","i","p","c","i","o","n">>}

\* extractTags: the eight most frequent words, first seen first among equals
extractTags(text) ==
    LET words == SelectSeq(tagWords(normalize(text)), LAMBDA w : w \notin tagBlacklist)
        freq(w) == Cardinality({i \in 1..Len(words) : words[i] = w})
        moreFrequent(a, b) == freq(b) - freq(a) < 0
    IN  slice0(sortBy(moreFrequent, uniq(words)), 8)

\* String.prototype.split('-')[1]: what stands between the first and the second dash
secondByDash(text) ==
    LET dashes == {i \in 1..Len(text) : text[i] = "-"}
        first == CHOOSE i \in dashes : \A j \in dashes : i <= j
        later == {i \in dashes : i > first}
        second == IF later = {} THEN Len(text) + 1
                  ELSE CHOOSE i \in later : \A j \in later : i <= j
    IN  IF dashes = {} THEN <<>> ELSE SubSeq(text, first + 1, second - 1)

\* extractCompany
extractCompany(title, snippet) ==
    LET company == clean(secondByDash(title \o <<" ", "|", " ">> \o snippet))
    IN  IF company # <<>> THEN slice0(company, 80) ELSE <<"E","m","p","r","e","s","a"," ","n","o"," ","d","e","t","e","c","t","a","d","a">>

\* extractLocation: the cities known, in the order they are tried
cityMappings ==
    << [city |-> <<"l","i","m","a">>, country |-> <<"P","e","r","u">>],
       [city |-> <<"a","r","e","q","u","i","p","a">>, country |-> <<"P","e","r","u">>],
       [city |-> <<"t","r","u","j","i","l","l","o">>, country |-> <<"P","e","r","u">>],
       [city |-> <<"c","d","m","x">>, country |-> <<"M","e","x","i","c","o">>],
       [city |-> <<"g","u","a","d","a","l","a","j","a","r","a">>, country |-> <<"M","e","x","i","c","o">>],
       [city |-> <<"m","o","n","t","e","r","r","e","y">>, country |-> <<"M","e","x","i","c","o">>],
       [city |-> <<"b","u","e","n","o","s"," ","a","i","r","e","s">>, country |-> <<"A","r","g","e","n","t","i","n","a">>],
       [city |-> <<"s","a","n","t","i","a","g","o">>, country |-> <<"C","h","i","l","e">>],
       [city |-> <<"b","o","g","o","t","a">>, country |-> <<"C","o","l","o","m","b","i","a">>],
       [city |-> <<"m","a","d","r","i","d">>, country |-> <<"S","p","a","i","n">>],
       [city |-> <<"b","a","r","c","e","l","o","n","a">>, country |-> <<"S","p","a","i","n">>],
       [city |-> <<"n","e","w"," ","y","o","r","k">>, country |-> <<"U","n","i","t","e","d"," ","S","t","a","t","e","s">>],
       [city |-> <<"c","a","l","i","f","o","r","n","i","a">>, country |-> <<"U","n","i","t","e","d"," ","S","t","a","t","e","s">>],
       [city |-> <<"t","e","x","a","s">>, country |-> <<"U","n","i","t","e","d"," ","S","t","a","t","e","s">>] >>

\* `${item.city[0].toUpperCase()}${item.city.slice(1)}`
capitalized(word) ==
    LET c == word[1] IN
    <<IF \E i \in 1..Len(LowerChars) : LowerChars[i] = c
      THEN UpperChars[CHOOSE i \in 1..Len(LowerChars) : LowerChars[i] = c]
      ELSE c>> \o Tail(word)

\* extractLocation
extractLocation(snippet, countryText) ==
    LET normalized == normalize(snippet)
        found == {i \in 1..Len(cityMappings) : includes(normalized, cityMappings[i].city)}
        item == cityMappings[CHOOSE i \in found : \A j \in found : i <= j]
    IN  IF found # {} THEN capitalized(item.city) \o <<",", " ">> \o item.country
        ELSE IF \E t \in Range(getCountryTokens(countryText)) : includes(normalized, t)
             THEN countryText
        ELSE countryText \o <<" ","(","n","o"," ","e","s","p","e","c","i","f","i","c","a","d","o",")">>

\* searchDuckDuckGo, lines 722-734: the job made of a result with a usable link
scrapedJob(title, snippet, href, source, countryText, publishedTs) ==
    [title |-> IF clean(title) # <<>> THEN clean(title) ELSE <<"V","a","c","a","n","t","e">>,
     company |-> extractCompany(IF clean(title) # <<>> THEN clean(title) ELSE <<"V","a","c","a","n","t","e">>,
                                clean(snippet)),
     location |-> extractLocation(clean(snippet), countryText),
     source |-> source,
     url |-> href,
     tags |-> extractTags((IF clean(title) # <<>> THEN clean(title) ELSE <<"V","a","c","a","n","t","e">>)
                          \o <<" ">> \o clean(snippet)),
     score |-> 0,
     publishedAt |-> publishedLabel(publishedTs),
     publishedTs |-> publishedTs]

\* the results scraped and the calls of scoreJob, each with the number of the
\* query keyword whose text is then added to the record
titleReact == <<"R","e","a","c","t"," ","D","e","v","e","l","o","p","e","r"," ","-"," ","L","i","m","a",","," ","P","e","r","u">>
ScoreTitles == { titleReact, <<"S","e","n","i","o","r"," ","P","y","t","h","o","n"," ","L","e","a","d">>, <<"P","r","a","c","t","i","c","a","n","t","e"," ","d","e"," ","s","i","s","t","e","m","a","s">>, <<"C","h","e","f">> }
ScoreSnippets == { <<>>, <<"E","q","u","i","p","o"," ","d","e"," ","N","o","d","e"," ","y"," ","R","e","a","c","t"," ","e","n"," ","M","a","d","r","i","d">> }
kwReactNode == <<<<"r","e","a","c","t">>, <<"n","o","d","e">>>>
ScoreKeywords == { kwReactNode, <<<<"p","y","t","h","o","n">>, <<"s","e","n","i","o","r">>>>, <<<<"j","u","n","i","o","r">>, <<"s","q","l">>>> }
ExpMid == [level |-> "mid", prefersInternships |-> FALSE, seniorityTerms |-> <<<<"a","n","a","l","i","s","t","a">>, <<"a","s","s","o","c","i","a","t","e">>, <<"m","i","d"," ","l","e","v","e","l">>>>]
ExpMidInternships == [level |-> "mid", prefersInternships |-> TRUE, seniorityTerms |-> <<<<"p","r","a","c","t","i","c","a">>, <<"i","n","t","e","r","n">>>>]
ExpSenior == [level |-> "senior", prefersInternships |-> FALSE, seniorityTerms |-> <<<<"s","e","n","i","o","r">>, <<"l","e","a","d">>, <<"m","a","n","a","g","e","r">>, <<"p","r","i","n","c","i","p","a","l">>>>]
ExpIntern == [level |-> "intern", prefersInternships |-> TRUE, seniorityTerms |-> <<<<"p","r","a","c","t","i","c","a","n","t","e">>, <<"i","n","t","e","r","n">>, <<"t","r","a","i","n","e","e">>, <<"j","u","n","i","o","r">>>>]
ScoreExperiences == { NoExperience, ExpJunior, ExpMid, ExpMidInternships, ExpSenior, ExpIntern }
ScoreCities == { <<>>, <<"L","i","m","a">> }

ScoreInputs ==
    [fn : {"scoreJob"}, title : ScoreTitles, snippet : ScoreSnippets,
     keywords : ScoreKeywords, cityOrRegion : ScoreCities,
     experience : ScoreExperiences, added : 1..2]

\* the scraped record of the call
jobOf(in) == scrapedJob(in.title, in.snippet, <<"h","t","t","p","s",":","/","/","w","w","w",".","l","i","n","k","e","d","i","n",".","c","o","m","/","j","o","b","s","/","v","i","e","w","/","9">>, srcLinkedIn, txtPeru, 0)

\* the haystack of scoreJob, line 824
scoreHaystack(job) ==
    normalize(job.title \o <<" ">> \o job.company \o <<" ">> \o job.location
              \o <<" ">> \o join(job.tags, <<" ">>))

\* the record with the keyword's text added to its title, nothing else changed
withKeyword(job, keyword) == [job EXCEPT !.title = job.title \o <<" ">> \o keyword]

\* the record is filtered and scored, as it is and with the keyword added
callScoreJob ==
    /\ fnIn.fn = "scoreJob"
    /\ fnOut = NoReturn
    /\ LET job == jobOf(fnIn)
           more == withKeyword(job, fnIn.keywords[fnIn.added])
       IN  fnOut' =
               [fn |-> "scoreJob",
                job |-> job,
                passes |-> isJobInCountry(job, txtPeru, fnIn.cityOrRegion),
                value |-> scoreJob(job, fnIn.keywords, txtPeru, fnIn.cityOrRegion,
                                   fnIn.experience),
                experienceFit |-> scoreByExperience(scoreHaystack(job), fnIn.experience),
                valueWithKeyword |-> scoreJob(more, fnIn.keywords, txtPeru,
                                              fnIn.cityOrRegion, fnIn.experience)]
    /\ FnFrame

ScoreNext == callScoreJob

-----------------------------------------------------------------------------
(* RecruitingRagService.tokenScore *)

\* String.prototype.split(' '): the pieces between the spaces, empty ones included
split(s) ==
    LET seps == <<0>> \o SelectSeq([i \in 1..Len(s) |-> i], LAMBDA i : s[i] = " ")
                     \o <<Len(s) + 1>>
    IN  [k \in 1..(Len(seps) - 1) |-> SubSeq(s, seps[k] + 1, seps[k + 1] - 1)]

\* filter(Boolean) on strings
filterBoolean(tokens) == SelectSeq(tokens, LAMBDA t : t # <<>>)

\* a quotient of two integers, as overlap / left.size is one
Quotient(num, den) == [num |-> num, den |-> den]

\* tokenScore with the overlap divided by the size of the right set
tokenScoreByRight(a, b) ==
    LET left == Range(filterBoolean(split(a)))
        right == Range(filterBoolean(split(b)))
        overlap == Cardinality({token \in left : token \in right})
    IN  IF Cardinality(left) = 0 \/ Cardinality(right) = 0 THEN Quotient(0, 1)
        ELSE Quotient(overlap, Cardinality(right))

\* tokenScore
tokenScore(a, b) ==
    LET left == Range(filterBoolean(split(a)))
        right == Range(filterBoolean(split(b)))
        overlap == Cardinality({token \in left : token \in right})
    IN  IF Cardinality(left) = 0 THEN Quotient(0, 1)
        ELSE Quotient(overlap, Cardinality(left))

\* the longest text of a call
MaxTextLen == 3
TokenChars == {"a", "b", " "}
RECURSIVE TextsUpTo(_)
TextsUpTo(n) ==
    IF n = 0 THEN {<<>>}
    ELSE LET shorter == TextsUpTo(n - 1)
         IN  shorter \cup {Append(t, c) : t \in {u \in shorter : Len(u) = n - 1}, c \in TokenChars}
TokenTexts == TextsUpTo(MaxTextLen)

TokenInputs == [fn : {"tokenScore"}, a : TokenTexts, b : TokenTexts]

\* tokenScore(a, b) is called, and tokenScore(b, a) next to it
callTokenScore ==
    /\ fnIn.fn = "tokenScore"
    /\ fnOut = NoReturn
    /\ fnOut' = [fn |-> "tokenScore",
                 value |-> tokenScore(fnIn.a, fnIn.b),
                 swapped |-> tokenScore(fnIn.b, fnIn.a)]
    /\ FnFrame

TokenNext == callTokenScore

-----------------------------------------------------------------------------
(* RecruitingService.callGeminiWithRetry *)

\* the largest maxRetries of a call (3 is the default of the parameter)
MaxRetries == 3

\* what geminiService.generate can settle with: a text, or an error with its
\* message and detail; kind names what the answer is, the code reads the texts
GenerateOutcomes ==
    { [settled |-> "resolved", kind |-> "text", text |-> <<"{","QUOTE","s","k","i","l","l","s","QUOTE",":","[","]","}">>],
      [settled |-> "resolved", kind |-> "empty", text |-> <<>>],
      [settled |-> "resolved", kind |-> "empty", text |-> <<" "," ">>],
      [settled |-> "rejected", kind |-> "quota", message |-> <<"4","2","9"," ","T","o","o"," ","M","a","n","y"," ","R","e","q","u","e","s","t","s">>, detail |-> <<>>],
      [settled |-> "rejected", kind |-> "quota", message |-> <<"q","u","o","t","a"," ","e","x","c","e","e","d","e","d",","," ","r","e","t","r","y"," ","i","n"," ","5","s">>, detail |-> <<>>],
      [settled |-> "rejected", kind |-> "quota", message |-> <<"R","e","q","u","e","s","t"," ","f","a","i","l","e","d">>, detail |-> <<"R","E","S","O","U","R","C","E","_","E","X","H","A","U","S","T","E","D">>],
      [settled |-> "rejected", kind |-> "zero_quota", message |-> <<"4","2","9"," ","q","u","o","t","a"," ","e","x","c","e","e","d","e","d">>, detail |-> <<"l","i","m","i","t",":"," "," ","0">>],
      [settled |-> "rejected", kind |-> "zero_quota", message |-> <<"4","2","9">>, detail |-> <<"g","e","n","e","r","a","t","e","r","e","q","u","e","s","t","s","p","e","r","d","a","y","p","e","r","p","r","o","j","e","c","t","p","e","r","m","o","d","e","l","-","f","r","e","e","t","i","e","r">>],
      [settled |-> "rejected", kind |-> "other", message |-> <<"5","0","0"," ","I","n","t","e","r","n","a","l"," ","S","e","r","v","e","r"," ","E","r","r","o","r">>, detail |-> <<>>],
      [settled |-> "rejected", kind |-> "other", message |-> <<"t","o","k","e","n"," ","l","i","m","i","t",":"," ","0"," ","r","e","a","c","h","e","d">>, detail |-> <<>>] }

\* line 710: error?.detail || JSON.stringify(error) || ''
detailOf(error) == IF error.detail # <<>> THEN error.detail ELSE <<"{", "}">>

\* lines 708-711
fullTextOf(error) == error.message \o detailOf(error)

\* every error taken for a quota error
is429Always(fullText) == TRUE

\* lines 713-717
is429(fullText) ==
    \/ includes(fullText, <<"4","2","9">>)
    \/ includes(fullText, <<"q","u","o","t","a">>)
    \/ includes(fullText, <<"R","E","S","O","U","R","C","E","_","E","X","H","A","U","S","T","E","D">>)
    \/ includes(fullText, <<"T","o","o"," ","M","a","n","y"," ","R","e","q","u","e","s","t","s">>)

\* /limit:\s*0/i
matchesLimitZero(fullText) ==
    LET lower == Lowered(fullText) IN
    \E i \in 1..Len(lower), j \in 1..Len(lower) :
        /\ i + 6 <= j
        /\ SubSeq(lower, i, i + 5) = <<"l","i","m","i","t",":">>
        /\ \A k \in (i + 6)..(j - 1) : IsSpace(lower[k])
        /\ lower[j] = "0"

\* lines 718-720
hardQuotaZero(fullText) ==
    \/ matchesLimitZero(fullText)
    \/ includes(Lowered(fullText), Lowered(<<"G","e","n","e","r","a","t","e","R","e","q","u","e","s","t","s","P","e","r","D","a","y","P","e","r","P","r","o","j","e","c","t","P","e","r","M","o","d","e","l","-","F","r","e","e","T","i","e","r">>))

\* the call before it starts, and while it runs: the attempt of the loop, the
\* answers of the generator so far, and how the call ended
GeminiCall(maxRetries) == [fn |-> "callGeminiWithRetry", maxRetries |-> maxRetries]
GeminiInputs == {GeminiCall(n) : n \in 0..MaxRetries}

geminiRuns(state, attempt, log, error) ==
    [fn |-> "callGeminiWithRetry", state |-> state, attempt |-> attempt, log |-> log,
     error |-> error]

\* line 702: the loop is entered, or left at once with line 753
geminiLoop(attempt, log) ==
    IF attempt <= fnIn.maxRetries THEN geminiRuns("generate", attempt, log, "")
    ELSE geminiRuns("thrown", attempt, log, "max_retries_exceeded")

\* lines 705-750: what the attempt does with the answer of the generator
geminiAnswered(attempt, log, outcome) ==
    LET logged == Append(log, outcome) IN
    IF outcome.settled = "resolved" /\ trim(outcome.text) # <<>>
    THEN geminiRuns("returned", attempt, logged, "")
    ELSE LET error == IF outcome.settled = "resolved"
                      THEN [message |-> <<"e","m","p","t","y","_","r","e","s","p","o","n","s","e">>, detail |-> <<>>]
                      ELSE [message |-> outcome.message, detail |-> outcome.detail]
             fullText == fullTextOf(error)
         IN  IF is429(fullText) /\ hardQuotaZero(fullText)
             THEN geminiRuns("thrown", attempt, logged, "quota_limit_zero")
             ELSE IF is429(fullText) /\ attempt < fnIn.maxRetries
             THEN geminiRuns("waiting", attempt, logged, "")
             ELSE IF attempt = fnIn.maxRetries
             THEN geminiRuns("thrown", attempt, logged, "max_retries_exceeded")
             ELSE geminiRuns("thrown", attempt, logged, "rethrown")

\* callGeminiWithRetry(prompt, maxRetries) is called
callGeminiWithRetry ==
    /\ fnIn.fn = "callGeminiWithRetry"
    /\ fnOut = NoReturn
    /\ fnOut' = geminiLoop(1, <<>>)
    /\ FnFrame

\* geminiService.generate settles
generateSettles(outcome) ==
    /\ fnOut.fn = "callGeminiWithRetry"
    /\ fnOut.state = "generate"
    /\ fnOut' = geminiAnswered(fnOut.attempt, fnOut.log, outcome)
    /\ FnFrame

\* line 744: the timer of the wait fires, and `continue` starts the next attempt
retryTimerFires ==
    /\ fnOut.fn = "callGeminiWithRetry"
    /\ fnOut.state = "waiting"
    /\ fnOut' = geminiLoop(fnOut.attempt + 1, fnOut.log)
    /\ FnFrame

GeminiNext ==
    \/ callGeminiWithRetry
    \/ \E outcome \in GenerateOutcomes : generateSettles(outcome)
    \/ retryTimerFires

-----------------------------------------------------------------------------
(* RecruitingRagService: match cases, career paths and their feedback, in
   JSON-file mode (hasPgConfig is false). Its calls run one after another:
   a call is one step, from its readDb to its writeDb. A quality is counted
   in tenths: 1.2 is 12, -0.8 is -8, a step of 1 is 10. *)

\* feedback notes a match case's whyAccepted can take before the model stops
\* adding notes to it
MaxFeedbackNotes == 1

\* .slice(0, 24) of registerFeedback
UsefulTitlesCap == 24

\* Date.now() and Math.random() give every saved record an id of its own
RagMatchIds == {"match_1"}
RagPathIds == {"path_1"}
RagIds == RagMatchIds \cup RagPathIds

\* verdict?: absent is the empty text
SaveVerdicts == {"accepted", "rejected", "unknown", ""}
FeedbackTypes == {"match", "career_path"}
FeedbackVerdicts ==
    {"like", "dislike", "accepted", "rejected", "completed", "not_useful"}

\* what readDb's catch writes and returns
InitialRagDb == [matchCases |-> <<>>, careerPaths |-> <<>>]

NoRagFile == [exists |-> FALSE]
NoRagReturn == [fn |-> ""]

RagInit ==
    /\ ragFile = NoRagFile
    /\ ragOut = NoRagReturn

RagFrame == UNCHANGED <<memVars, searchVars, usageVars, matchVars, fnVars>>

\* readDb: the parsed file, or the initial db when the file cannot be read
ragReadDb(file) == IF file.exists THEN file.db ELSE InitialRagDb

\* writeDb: the whole file is written
ragWriteDb(db) == [exists |-> TRUE, db |-> db]

\* rows.find((x) => x.id === refId): the index of the first such row, or 0
find(rows, refId) ==
    IF \E i \in 1..Len(rows) : rows[i].id = refId
    THEN CHOOSE i \in 1..Len(rows) :
             /\ rows[i].id = refId
             /\ \A j \in 1..(i - 1) : rows[j].id # refId
    ELSE 0

storedIds(db) ==
    { db.matchCases[i].id : i \in 1..Len(db.matchCases) }
        \cup { db.careerPaths[i].id : i \in 1..Len(db.careerPaths) }

saveMatchPrediction(id, inputVerdict) ==
    /\ id \notin storedIds(ragReadDb(ragFile))
    /\ LET verdict == IF inputVerdict # "" THEN inputVerdict ELSE "unknown"
           quality == IF verdict = "accepted" THEN 12
                      ELSE IF verdict = "rejected" THEN -8 ELSE 0
           db == ragReadDb(ragFile)
           row == [id |-> id, whyAccepted |-> <<"why">>,
                   verdict |-> verdict, quality |-> quality]
       IN  /\ ragFile' = ragWriteDb(
                  [db EXCEPT !.matchCases = Append(db.matchCases, row)])
           /\ ragOut' = [fn |-> "saveMatchPrediction", id |-> id]
    /\ RagFrame

saveCareerPath(id) ==
    /\ id \notin storedIds(ragReadDb(ragFile))
    /\ LET db == ragReadDb(ragFile)
           row == [id |-> id, usefulStepTitles |-> <<>>, quality |-> 0]
       IN  /\ ragFile' = ragWriteDb(
                  [db EXCEPT !.careerPaths = Append(db.careerPaths, row)])
           /\ ragOut' = [fn |-> "saveCareerPath", id |-> id]
    /\ RagFrame

\* the type 'match' branch of registerFeedback, without the cap of 5
registerMatchFeedbackUncapped(row, verdict, notes) ==
    LET judged ==
            IF verdict \in {"accepted", "like"}
            THEN [row EXCEPT !.verdict = "accepted",
                             !.quality = row.quality + 10]
            ELSE IF verdict \in {"rejected", "dislike"}
            THEN [row EXCEPT !.verdict = "rejected",
                             !.quality = Max(row.quality - 10, -50)]
            ELSE row
    IN  IF notes # ""
        THEN [judged EXCEPT !.whyAccepted = Append(judged.whyAccepted, notes)]
        ELSE judged

\* the type 'match' branch of registerFeedback, on the row found
registerMatchFeedback(row, verdict, notes) ==
    LET judged ==
            IF verdict \in {"accepted", "like"}
            THEN [row EXCEPT !.verdict = "accepted",
                             !.quality = Min(row.quality + 10, 50)]
            ELSE IF verdict \in {"rejected", "dislike"}
            THEN [row EXCEPT !.verdict = "rejected",
                             !.quality = Max(row.quality - 10, -50)]
            ELSE row
    IN  IF notes # ""
        THEN [judged EXCEPT !.whyAccepted = Append(judged.whyAccepted, notes)]
        ELSE judged

\* the career-path branch of registerFeedback, on the row found
registerPathFeedback(pathRow, verdict, notes) ==
    IF verdict \in {"completed", "like"}
    THEN LET raised == [pathRow EXCEPT !.quality = Min(pathRow.quality + 10, 60)]
         IN  IF notes # ""
             THEN [raised EXCEPT !.usefulStepTitles =
                      slice0(uniq(Append(pathRow.usefulStepTitles, notes)),
                             UsefulTitlesCap)]
             ELSE raised
    ELSE IF verdict \in {"not_useful", "dislike"}
    THEN [pathRow EXCEPT !.quality = Max(pathRow.quality - 10, -60)]
    ELSE pathRow

\* the notes a call can carry: none, the first step's title, or the title
\* after the last one the path has (titles are numbered as they arrive)
FeedbackNotes(db, type, refId) ==
    LET i == find(db.careerPaths, refId)
        titles == IF type = "career_path" /\ i # 0
                  THEN db.careerPaths[i].usefulStepTitles ELSE <<>>
    IN  {"", "1", ToString(Len(titles) + 1)}

\* a match case takes no more than MaxFeedbackNotes notes
NotesFit(db, type, refId, notes) ==
    LET i == find(db.matchCases, refId)
    IN  (type = "match" /\ i # 0 /\ notes # "")
            => Len(db.matchCases[i].whyAccepted) <= MaxFeedbackNotes

registerFeedback(type, refId, verdict, notes) ==
    /\ NotesFit(ragReadDb(ragFile), type, refId, notes)
    /\ LET db == ragReadDb(ragFile)
           read == IF ragFile.exists THEN ragFile ELSE ragWriteDb(db)
           returns(updated) == [fn |-> "registerFeedback", type |-> type,
                                refId |-> refId, updated |-> updated]
           i == find(db.matchCases, refId)
           p == find(db.careerPaths, refId)
       IN  IF type = "match"
           THEN IF i = 0
                THEN /\ ragFile' = read
                     /\ ragOut' = returns(FALSE)
                ELSE /\ ragFile' = ragWriteDb([db EXCEPT !.matchCases[i] =
                            registerMatchFeedback(@, verdict, notes)])
                     /\ ragOut' = returns(TRUE)
           ELSE IF p = 0
                THEN /\ ragFile' = read
                     /\ ragOut' = returns(FALSE)
                ELSE /\ ragFile' = ragWriteDb([db EXCEPT !.careerPaths[p] =
                            registerPathFeedback(@, verdict, notes)])
                     /\ ragOut' = returns(TRUE)
    /\ RagFrame

RagNext ==
    \/ \E id \in RagMatchIds, verdict \in SaveVerdicts :
           saveMatchPrediction(id, verdict)
    \/ \E id \in RagPathIds : saveCareerPath(id)
    \/ \E type \in FeedbackTypes, refId \in RagIds :
           \E verdict \in FeedbackVerdicts,
              notes \in FeedbackNotes(ragReadDb(ragFile), type, refId) :
               registerFeedback(type, refId, verdict, notes)

-----------------------------------------------------------------------------
(* The specifications *)

\* all services constructed
InitServices == MemInit /\ SearchInit /\ UsageInit /\ MatchInit /\ RagInit

\* no function is called on its own
Init == InitServices /\ fnIn = NoCall /\ fnOut = NoReturn

\* the two stores work the same with or without the API keys of the search
\* providers: their runs start from the service constructed without keys
InitStores == Init /\ env = [theirStackKey |-> FALSE, coreSignalKey |-> FALSE]

SpecMemory == InitStores /\ [][MemNext]_vars
SpecMemorySeq == InitStores /\ [][MemSeqNext]_vars
SpecSearch == Init /\ [][SearchNext]_vars
SpecUsage == InitStores /\ [][UsageNext]_vars
SpecMatch == InitStores /\ [][MatchNext]_vars
SpecMatchCountry == InitStores /\ [][MatchCountryNext]_vars

\* the service of a function called on its own, the arguments drawn from a set
InitCall(inputs) ==
    /\ InitServices
    /\ env = [theirStackKey |-> FALSE, coreSignalKey |-> FALSE]
    /\ fnIn \in inputs
    /\ fnOut = NoReturn

InitMerge == InitCall(MergeInputs)
SpecMerge == InitMerge /\ [][MergeNext]_vars

InitScore == InitCall(ScoreInputs)
SpecScore == InitScore /\ [][ScoreNext]_vars

InitToken == InitCall(TokenInputs)
SpecToken == InitToken /\ [][TokenNext]_vars

\* the generator settles every call and the timer of a wait fires
InitGemini == InitCall(GeminiInputs)
SpecGemini == InitGemini /\ [][GeminiNext]_vars /\ WF_vars(GeminiNext)

\* the store of match cases and career paths, from no file
SpecRag == InitStores /\ [][RagNext]_vars

-----------------------------------------------------------------------------
(* Properties of SearchMemoryService *)

StoredKeys == DOMAIN memFile.buckets
KeywordWeightIn(db, key, k) == IF key \in DOMAIN db THEN Get(db[key].keywordWeights, k) ELSE 0
SourceWeightIn(db, key, s) == IF key \in DOMAIN db THEN Get(db[key].sourceWeights, s) ELSE 0
HasKeywordIn(db, key, k) == key \in DOMAIN db /\ k \in DOMAIN db[key].keywordWeights
HasSourceIn(db, key, s) == key \in DOMAIN db /\ s \in DOMAIN db[key].sourceWeights

keyPeruJunior == <<"p","e","r","u","|","j","u","n","i","o","r">>
nLinkedIn == <<"l","i","n","k","e","d","i","n">>
nTheirStack == <<"t","h","e","i","r","s","t","a","c","k">>

\* C1: after any sequence of learnFromResults calls, under any interleaving of
\* concurrent calls, every stored keyword weight is at most 6.0 and every stored
\* source weight is at most 8.0.
WeightCaps ==
    \A key \in StoredKeys :
        /\ \A k \in DOMAIN memFile.buckets[key].keywordWeights :
               memFile.buckets[key].keywordWeights[k] <= KeywordCap
        /\ \A s \in DOMAIN memFile.buckets[key].sourceWeights :
               memFile.buckets[key].sourceWeights[s] <= SourceCap

\* C1's case: a bucket whose keyword weight and source weight both stand at their caps
WeightCapsReached ==
    \E key \in StoredKeys :
        /\ KeywordWeightIn(memFile.buckets, key, kwPython) = KeywordCap
        /\ SourceWeightIn(memFile.buckets, key, nLinkedIn) = SourceCap
        /\ memFile.buckets[key].updates >= 2

\* C6: the stored value of every keyword weight and every source weight of a
\* bucket never decreases from one state to the next, with concurrent requests
\* whose file reads and writes interleave.
WeightsNeverDecrease ==
    [][\A key \in StoredKeys :
          /\ \A k \in DOMAIN memFile.buckets[key].keywordWeights :
                 KeywordWeightIn(memFile'.buckets, key, k) >= memFile.buckets[key].keywordWeights[k]
          /\ \A s \in DOMAIN memFile.buckets[key].sourceWeights :
                 SourceWeightIn(memFile'.buckets, key, s) >= memFile.buckets[key].sourceWeights[s]
      ]_vars

\* C7: a bucket, once created by a learning event, is present in the store in
\* every later state, whatever getProfile and learnFromResults calls follow,
\* including a call whose read of the store file fails.
BucketsNeverDeleted ==
    [][\A key \in StoredKeys : key \in DOMAIN memFile'.buckets]_vars

\* the step in which request r leaves learnFromResults at its line 49 or goes on
EntersWithEmptyList(r) ==
    /\ memPc[r] = "called"
    /\ memPc'[r] # "called"
    /\ (Len(memReq[r].jobs) = 0 \/ Len(memReq[r].searchedKeywords) = 0)

\* C8: learnFromResults called with an empty result list or an empty keyword
\* list is a no-op: it returns at once, no bucket is created and no weight, update
\* counter or timestamp of any bucket changes.
EmptyCallIsNoop ==
    [][\A r \in MemReqs :
          EntersWithEmptyList(r) => (memPc'[r] = "idle" /\ memFile' = memFile)
      ]_vars

\* C8's case: a call with an empty list is pending while the store holds a bucket
EmptyCallPending ==
    /\ memPc[1] = "called"
    /\ (Len(memReq[1].jobs) = 0 \/ Len(memReq[1].searchedKeywords) = 0)
    /\ StoredKeys # {}

\* the step in which request r's readDb returns and the handler computes the bucket
Learns(r) ==
    /\ memPc[r] \in {"readDb", "readDbCatch"}
    /\ memPc'[r] = "writeDb"

\* the store before that step
DbRead(r) == memFile.buckets

\* the step in which request r's writeDb stores the bucket
Stores(r) == memPc[r] = "writeDb" /\ memPc'[r] = "idle"

\* count(k): how many of the first 20 results contain k in normalized title+tags
CountOf(k, jobs) ==
    Cardinality({i \in 1..Len(jobs) : i <= 20 /\ includes(haystackTable[jobs[i]], k)})

SearchedOf(r) ==
    {normalizeTable[memReq[r].searchedKeywords[i]] : i \in DOMAIN memReq[r].searchedKeywords}
        \ {<<>>}

\* C9: after one learnFromResults call the stored weight of each searched keyword
\* k is min(weight before + 0.2 x count(k), 6.0); a keyword with count 0 keeps its
\* weight and gets no entry; results at position 21 or later count for nothing.
KeywordLearning ==
    [][\A r \in MemReqs :
          /\ Learns(r) =>
                LET key == buildBucketKey(memReq[r].country, memReq[r].level) IN
                \A k \in SearchedOf(r) :
                    LET n == CountOf(k, memReq[r].jobs) IN
                    /\ KeywordWeightIn(memDb'[r], key, k)
                           = Min(KeywordWeightIn(DbRead(r), key, k) + 4 * n, 120)
                    /\ n = 0 => (HasKeywordIn(memDb'[r], key, k) <=> HasKeywordIn(DbRead(r), key, k))
          /\ Stores(r) => memFile'.buckets = memDb[r]
      ]_vars

\* C9's case: two calls have raised a stored keyword weight to the cap
KeywordLearnedTwice ==
    \E key \in StoredKeys :
        /\ memFile.buckets[key].updates = 2
        /\ KeywordWeightIn(memFile.buckets, key, kwPython) = 120
        /\ ~HasKeywordIn(memFile.buckets, key, kwSql)

\* the bonus of the result at 0-based position i: max(1.2 - 0.05 x i, 0.2)
RankBonus(i) == IF 24 - i >= 4 THEN 24 - i ELSE 4

RECURSIVE SumBonus(_, _, _)
\* the sum of RankBonus over the positions i < 20, from i on, held by provider s
SumBonus(s, jobs, i) ==
    IF i >= Len(jobs) \/ i >= 20 THEN 0
    ELSE (IF normalizeTable[jobs[i + 1].source] = s THEN RankBonus(i) ELSE 0)
         + SumBonus(s, jobs, i + 1)

\* C10: after one learnFromResults call each provider's source weight is
\* min(weight before + the sum of max(1.2 - 0.05 x i, 0.2) over the positions
\* i < 20 of its results, 8.0), and a better rank never earns less than a worse one.
SourceLearning ==
    [][\A r \in MemReqs :
          /\ Learns(r) =>
                LET key == buildBucketKey(memReq[r].country, memReq[r].level) IN
                \A s \in {normalizeTable[x] : x \in {srcLinkedIn, srcIndeed, srcTheirStack}} :
                    LET sum == SumBonus(s, memReq[r].jobs, 0) IN
                    /\ SourceWeightIn(memDb'[r], key, s)
                           = Min(SourceWeightIn(DbRead(r), key, s) + sum, 160)
                    /\ sum = 0 => (HasSourceIn(memDb'[r], key, s) <=> HasSourceIn(DbRead(r), key, s))
          /\ Stores(r) => memFile'.buckets = memDb[r]
          /\ \A i, j \in 0..19 : i < j => sourceBonus(i) >= sourceBonus(j)
      ]_vars

\* C10's case: one call on results alternating between two providers is stored
SourceLearnedByRank ==
    \E key \in StoredKeys :
        /\ memFile.buckets[key].updates = 1
        /\ SourceWeightIn(memFile.buckets, key, nTheirStack) = 150
        /\ SourceWeightIn(memFile.buckets, key, nLinkedIn) = 140

-----------------------------------------------------------------------------
(* Properties of JobSearchService.searchPublicJobs *)

Returned == sPc = "done"
ScrapedJobs == flat(ddg.byQuery)
AllSettled ==
    /\ tsTask.state = "fulfilled"
    /\ csTask.state = "fulfilled"
    /\ ddg.next > Len(planTable[sArgs].queries)

\* no provider has a record to give: each is disabled, failed or found nothing
NoProviderRecords == tsTask.jobs = <<>> /\ csTask.jobs = <<>> /\ ScrapedJobs = <<>>

\* C2: if every provider is disabled or fails (both API keys absent, every
\* scrape query returns nothing), searchPublicJobs still returns a non-empty
\* jobs list made of fallback placeholders, and every entry of the returned
\* provider-status list has enabled = false or success = false.
GracefulDegradation ==
    (Returned /\ NoProviderRecords) =>
        /\ ~sOut.thrown
        /\ sOut.jobs # <<>>
        /\ \A i \in DOMAIN sOut.jobs : sOut.jobs[i] \in Range(planTable[sArgs].fallback)
        /\ Len(sOut.providers) = 3
        /\ \A i \in DOMAIN sOut.providers :
               ~sOut.providers[i].enabled \/ ~sOut.providers[i].success

\* both keys absent, every scrape query came back empty, and the call returned
AllProvidersDown ==
    /\ Returned
    /\ ~env.theirStackKey /\ ~env.coreSignalKey
    /\ ScrapedJobs = <<>>
    /\ Len(sOut.jobs) >= 5

\* the jobs a provider's own answers hold, whatever the other providers did
TheirStackDelivered ==
    IF tsTask.log # <<>> /\ tsTask.log[1] = "ok"
    THEN mapRecords(TheirStackPages[1], srcTheirStack) ELSE <<>>
CoreSignalDelivered ==
    IF /\ Len(csTask.log) >= 2
       /\ csTask.log[Len(csTask.log)] = "ok"
       /\ csTask.log[Len(csTask.log) - 1] = "ok"
    THEN mapRecords(CoreSignalDetails, srcCoreSignal) ELSE <<>>
InMerge(job) == \E i \in DOMAIN sOut.merged : sOut.merged[i] = job

\* C3: for every combination of outcomes of the three provider tasks (success,
\* HTTP error, timeout, malformed payload), searchPublicJobs resolves without
\* throwing, the merge runs only after all provider tasks have settled, and the
\* failure of one provider never keeps the records another provider returned
\* out of the merge.
ProvidersIndependent ==
    Returned =>
        /\ ~sOut.thrown
        /\ AllSettled
        /\ \A job \in Range(TheirStackDelivered) \cup Range(CoreSignalDelivered)
                      \cup Range(ScrapedJobs) : InMerge(job)

\* TheirStack's request failed, CoreSignal and the scraper delivered, and the
\* call returned with their records merged
OneProviderFailed ==
    /\ Returned
    /\ tsTask.log # <<>> /\ IsFailure(tsTask.log[1])
    /\ CoreSignalDelivered # <<>>
    /\ Len(ScrapedJobs) >= 2
    /\ Len(sOut.merged) = Len(CoreSignalDelivered) + Len(ScrapedJobs)

\* C4: the list searchPublicJobs returns is ordered highest score first, and
\* records of equal score appear newer first.
ScoreOrdered ==
    (Returned /\ ~sOut.thrown) =>
        \A i, j \in DOMAIN sOut.jobs :
            i < j => \/ sOut.jobs[i].score > sOut.jobs[j].score
                     \/ /\ sOut.jobs[i].score = sOut.jobs[j].score
                        /\ sOut.jobs[i].publishedTs >= sOut.jobs[j].publishedTs

-----------------------------------------------------------------------------
(* Properties of generateApplication *)

\* C5: for any userId, at most 3 generateApplication requests with plan 'free'
\* ever complete successfully, for any number of requests and any interleaving
\* of concurrent requests.
FreeQuotaRespected == \A u \in UserIds : completed[u] <= FREE_LIMIT


-----------------------------------------------------------------------------
(* Properties of the list searchPublicJobs returns *)

\* a URL up to its first question mark
UrlWithoutQuery(u) ==
    IF \E i \in 1..Len(u) : u[i] = "?"
    THEN SubSeq(u, 1, (CHOOSE i \in 1..Len(u) : u[i] = "?" /\ \A j \in 1..(i - 1) : u[j] # "?") - 1)
    ELSE u

\* the uniqueness key: normalize(provider + '|' + URL without its query string)
KeyOf(item) == normalize(item.source \o <<"|">> \o UrlWithoutQuery(item.url))

ReturnedList == Returned /\ ~sOut.thrown

\* the placeholders made for the call, and the records ranked for it
IsPlaceholder(job) == job \in Range(planTable[sArgs].fallback)
IsGenuine(job) == job \in Range(sOut.ranked)

\* C14: in the list searchPublicJobs returns, every fallback placeholder comes
\* after every genuine record, whatever that record's score and time of
\* publication.
PlaceholdersLast ==
    ReturnedList =>
        \A i, j \in DOMAIN sOut.jobs :
            (IsPlaceholder(sOut.jobs[i]) /\ IsGenuine(sOut.jobs[j])) => j < i

\* C15: for every seed keyword of the fallback generator and every job board,
\* the list searchPublicJobs returns holds the placeholder with the search URL
\* of that keyword on that board, unless a genuine record has the same key or
\* the list has reached its size limit.
EveryPlaceholderReturned ==
    (ReturnedList /\ Len(sOut.jobs) < 250) =>
        \A p \in Range(planTable[sArgs].fallback) :
            (\A g \in Range(sOut.ranked) : KeyOf(g) # KeyOf(p)) =>
                \E i \in DOMAIN sOut.jobs :
                    sOut.jobs[i].source = p.source /\ sOut.jobs[i].url = p.url

\* the record's title, location or tags hold a token of the country or the
\* city asked for
HasGeoToken(job) ==
    LET text == normalize(job.title \o <<" ">> \o job.location \o <<" ">> \o join(job.tags, <<" ">>))
        city == normalize(planTable[sArgs].cityOrRegion)
    IN  \/ \E t \in Range(getCountryTokens(planTable[sArgs].countryText)) : includes(text, t)
        \/ city # <<>> /\ includes(text, city)

FromApi(job) ==
    job.source \in {srcTheirStack, srcCoreSignal, <<"R","a","p","i","d","A","P","I">>}

\* a record, whatever its score
Unscored(jobs) == {[job EXCEPT !.score = 0] : job \in Range(jobs)}

Deduplicated == mergeAndDedupe(sOut.merged)

\* C16 as stated: the records ranked are exactly the deduplicated records with a
\* token of the country or the city, for every provider alike, or all
\* deduplicated records when none has one.
GeoFilterForAllProviders ==
    (ReturnedList /\ Len(Deduplicated) <= 180) =>
        LET withToken == {job \in Unscored(Deduplicated) : HasGeoToken(job)}
        IN  Unscored(sOut.ranked) =
                IF withToken # {} THEN withToken ELSE Unscored(Deduplicated)

\* C16: the records ranked are exactly the deduplicated records that have a
\* token of the country or the city or that do not come from an API provider
\* (RapidAPI, TheirStack, CoreSignal), or all deduplicated records when there
\* is no such record.
GeoFilterForApiProviders ==
    (ReturnedList /\ Len(Deduplicated) <= 180) =>
        LET passing == {job \in Unscored(Deduplicated) : HasGeoToken(job) \/ ~FromApi(job)}
        IN  Unscored(sOut.ranked) =
                IF passing # {} THEN passing ELSE Unscored(Deduplicated)

\* a scraped record without token is ranked, an API record without token is
\* not, and a record with a token is
GeoFilterApplied ==
    /\ ReturnedList
    /\ \E job \in Unscored(sOut.ranked) : ~HasGeoToken(job) /\ ~FromApi(job)
    /\ \E job \in Unscored(sOut.ranked) : HasGeoToken(job)
    /\ \E job \in Unscored(Deduplicated) \ Unscored(sOut.ranked) : FromApi(job)

-----------------------------------------------------------------------------
(* Properties of JobService.matchJobsByCv *)

MatchReturned == mPc = "idle" /\ mOut.status = "ok"

\* the bucket read for the request holds a weight for a keyword found in the
\* record, or for the record's provider
LearnedMatch(profile, job) ==
    \/ normalize(job.source) \in DOMAIN profile.sourceWeights
    \/ \E k \in DOMAIN profile.keywordWeights : includes(haystackOf(job), k)

\* the primary retrieval of the request returned, repeated with no bucket
RankedWithoutBucket ==
    searchOnce(primaryArgs(mOut.dto, mOut.analysis, EmptyProfile), mOut.answers[1]).ranked

\* C11: when the bucket of the request's (country, level) has weights, a
\* ranked record's score is at least its score without the bucket, and greater
\* when the bucket has a weight for a keyword found in it or for its provider.
LearnedWeightsRaiseScore ==
    (MatchReturned /\ mOut.learningProfile # EmptyProfile) =>
        \A i \in DOMAIN mOut.primaryRanked : \A j \in DOMAIN RankedWithoutBucket :
            LET with == mOut.primaryRanked[i]
                without == RankedWithoutBucket[j]
            IN  (with.source = without.source /\ with.url = without.url) =>
                    /\ with.score >= without.score
                    /\ LearnedMatch(mOut.learningProfile, with) => with.score > without.score


\* C13: the jobs list matchJobsByCv returns never holds two records with the
\* same provider and the same URL once the query string is stripped.
ReturnedJobsUnique ==
    MatchReturned =>
        \A i, j \in DOMAIN mOut.jobs :
            i # j =>
                ~(/\ normalize(mOut.jobs[i].source) = normalize(mOut.jobs[j].source)
                  /\ normalize(UrlWithoutQuery(mOut.jobs[i].url))
                         = normalize(UrlWithoutQuery(mOut.jobs[j].url)))

MatchEnded == mPc = "idle" /\ mOut.status # "none"

\* the request had no resume text, no file and no desired role
EmptyResume ==
    mOut.dto.cvText = <<>> /\ mOut.fromFile = <<>> /\ mOut.dto.desiredRole = <<>>

\* the placeholders of the primary retrieval of the request returned
PrimaryFallback ==
    planOf(primaryArgs(mOut.dto, mOut.analysis, mOut.learningProfile)).fallback

-----------------------------------------------------------------------------
(* Properties of the functions of JobSearchService *)

Merged == fnOut.fn = "mergeAndDedupe"

\* C12: mergeAndDedupe returns, for each key of an input record with a
\* non-empty URL, exactly one record, the first of that key in the input;
\* records without URL are dropped, and the output is never longer than the input.
MergeKeepsFirstPerKey ==
    Merged =>
        LET items == fnIn.items
            out == fnOut.value
            withUrl == {i \in DOMAIN items : items[i].url # <<>>}
            keys == {KeyOf(items[i]) : i \in withUrl}
            firstOf(k) == items[CHOOSE i \in withUrl :
                                   KeyOf(items[i]) = k /\ \A j \in withUrl : j < i => KeyOf(items[j]) # k]
        IN  /\ Len(out) = Cardinality(keys)
            /\ \A k \in keys :
                   /\ Cardinality({o \in DOMAIN out : KeyOf(out[o]) = k}) = 1
                   /\ \E o \in DOMAIN out : out[o] = firstOf(k)
            /\ \A o \in DOMAIN out : out[o].url # <<>>
            /\ Len(out) <= Len(items)

\* three records, two of one provider with URLs that differ in the query
\* string only and one without URL, merged into one
MergeCollapsed ==
    /\ Merged
    /\ Len(fnIn.items) = 3 /\ Len(fnOut.value) = 1
    /\ \E i, j \in DOMAIN fnIn.items :
           /\ i # j
           /\ fnIn.items[i].url # fnIn.items[j].url
           /\ fnIn.items[i].url # <<>> /\ fnIn.items[j].url # <<>>
           /\ KeyOf(fnIn.items[i]) = KeyOf(fnIn.items[j])
    /\ \E i \in DOMAIN fnIn.items : fnIn.items[i].url = <<>>

Scored == fnOut.fn = "scoreJob"

\* the call of the example: keywords react and node, Peru, Lima, no experience
\* profile, the result titled "React Developer - Lima, Peru" without date
IsExample ==
    /\ fnIn.title = titleReact /\ fnIn.keywords = kwReactNode
    /\ fnIn.cityOrRegion = <<"L","i","m","a">> /\ fnIn.experience = NoExperience

\* C18 as stated: the record of the example passes the geographic filter and
\* is scored 38.
ExampleScores38 ==
    (Scored /\ IsExample) => (fnOut.passes /\ fnOut.value = 38)

\* C18: the record of the example passes the geographic filter and is scored
\* 38 when node is found in its text next to react, and 26 = 12 + 8 + 6 + 0
\* when react is the one keyword found, as for a result with an empty snippet.
ExampleScoresByHits ==
    (Scored /\ IsExample) =>
        /\ fnOut.passes
        /\ fnOut.value = IF includes(scoreHaystack(fnOut.job), <<"n","o","d","e">>) THEN 38 ELSE 26

\* the record of the example with an empty snippet has been scored 26
ExampleScored ==
    /\ Scored /\ IsExample /\ fnIn.snippet = <<>>
    /\ fnOut.job.publishedTs = 0 /\ fnOut.job.title = titleReact
    /\ ~includes(scoreHaystack(fnOut.job), <<"n","o","d","e">>)
    /\ fnOut.passes /\ fnOut.value = 26

AddedKeyword == normalize(fnIn.keywords[fnIn.added])
HadKeyword == includes(scoreHaystack(fnOut.job), AddedKeyword)
HasEntryToken(text) == \E t \in Range(entryTokens) : includes(text, t)
HasSeniorToken(text) == \E t \in Range(seniorTokens) : includes(text, t)
PrefersInternships == HasExperience(fnIn.experience) /\ fnIn.experience.prefersInternships

\* the keyword added is the first senior token of a record without entry token
SeniorTokenArrives ==
    /\ ~HasSeniorToken(scoreHaystack(fnOut.job))
    /\ HasSeniorToken(scoreHaystack(withKeyword(fnOut.job, fnIn.keywords[fnIn.added])))
    /\ ~HasEntryToken(scoreHaystack(withKeyword(fnOut.job, fnIn.keywords[fnIn.added])))

\* C19 as stated: a record changed so that one more query keyword is found in
\* it never has a lower score than before, whatever the keyword.
RankMonotone ==
    (Scored /\ ~HadKeyword) => fnOut.valueWithKeyword >= fnOut.value

\* C19: a record changed so that one more query keyword is found in it never
\* has a lower score than before, unless the profile prefers internships and
\* the keyword brings the first senior token into a record without entry-level
\* token.
RankMonotoneButInternships ==
    (Scored /\ ~HadKeyword /\ ~(PrefersInternships /\ SeniorTokenArrives))
        => fnOut.valueWithKeyword >= fnOut.value

\* for a junior profile the keyword senior was added to a record without it,
\* and the score is higher by 2
SeniorKeywordAdded ==
    /\ Scored /\ ~HadKeyword /\ SeniorTokenArrives
    /\ fnIn.experience = ExpJunior
    /\ fnOut.valueWithKeyword = fnOut.value + 2

\* C20 as stated: for a profile of level mid the experience term is 0, whatever
\* its prefersInternships flag and the tokens of the record.
MidIsNeutral ==
    (Scored /\ HasExperience(fnIn.experience) /\ fnIn.experience.level = "mid")
        => fnOut.experienceFit = 0

\* C20: for a profile of level mid that does not prefer internships the
\* experience term is 0, whatever the tokens of the record.
MidWithoutInternshipsIsNeutral ==
    (/\ Scored /\ HasExperience(fnIn.experience)
     /\ fnIn.experience.level = "mid" /\ ~fnIn.experience.prefersInternships)
        => fnOut.experienceFit = 0

\* a record with a senior token scored for a mid profile that does not prefer
\* internships
MidScoredOnSeniorRecord ==
    /\ Scored /\ fnIn.experience = ExpMid
    /\ HasSeniorToken(scoreHaystack(fnOut.job))
    /\ fnOut.experienceFit = 0

-----------------------------------------------------------------------------
(* Properties of the provider tasks of searchPublicJobs *)

\* a task that resolved at once as a provider without API key does: no request
\* answered or waited for, no record, the disabled status with the error text
ShortCircuited(task, provider, error) ==
    /\ task.state = "fulfilled"
    /\ task.log = <<>> /\ task.pages = <<>> /\ task.step = 0
    /\ task.jobs = <<>>
    /\ task.status.provider = provider
    /\ task.status.enabled = FALSE /\ task.status.success = FALSE
    /\ task.status.jobs = 0
    /\ task.status.error = error /\ error # ""

\* the retrieval returned: every scrape call was answered, the provider with
\* a key ran, and the three statuses are reported
ProceededWithout(task, status) ==
    /\ ~sOut.thrown
    /\ ddg.next > Len(planTable[sArgs].queries)
    /\ task.state = "fulfilled" /\ task.status.enabled = (task.log # <<>>)
    /\ Len(sOut.providers) = 3
    /\ \E i \in 1..3 : sOut.providers[i] = status
    /\ sOut.providers[3] = scrapeStatus(ddg.byQuery)
    /\ sOut.jobs # <<>>

\* C21: during and after a retrieval, a structured provider without API key
\* has answered no request and resolved with no record and the status
\* enabled=false, success=false, jobs=0 and the error naming its key; the
\* retrieval returns with the other provider and the scraper having run.
DisabledProviderShortCircuits ==
    /\ (sPc # "idle" /\ ~env.theirStackKey) =>
           /\ ShortCircuited(tsTask, "TheirStack", "THEIRSTACK_API_KEY no configurada")
           /\ sPc = "done" => ProceededWithout(csTask, tsTask.status)
    /\ (sPc # "idle" /\ ~env.coreSignalKey) =>
           /\ ShortCircuited(csTask, "CoreSignal", "CORESIGNAL_API_KEY no configurada")
           /\ sPc = "done" => ProceededWithout(tsTask, csTask.status)

\* a retrieval without the TheirStack key returned records of CoreSignal
DisabledProviderSkipped ==
    /\ sPc = "done" /\ ~env.theirStackKey /\ env.coreSignalKey
    /\ tsTask.log = <<>> /\ csTask.log # <<>>
    /\ csTask.status.success
    /\ \E i \in 1..Len(sOut.jobs) : sOut.jobs[i].source = srcCoreSignal

-----------------------------------------------------------------------------
(* Properties of SearchMemoryService.getProfile *)

\* request r takes a step of a getProfile call
GetProfileStep(r) == memReq[r].op = "get" /\ memPc'[r] # memPc[r]

\* request r returns from a getProfile call
GetProfileReturns(r) == GetProfileStep(r) /\ memPc'[r] = "idle"

\* C22: a getProfile call for a bucket that is not in the store returns empty
\* keywordWeights and sourceWeights, and no step of a getProfile call creates
\* a bucket or changes a stored weight, counter or timestamp.
GetProfileReadsOnly ==
    [][\A r \in MemReqs :
          /\ (/\ GetProfileReturns(r)
              /\ buildBucketKey(memReq[r].country, memReq[r].level) \notin DOMAIN memFile.buckets)
                 => memOut'[r] = EmptyProfile
          /\ GetProfileStep(r) => memFile'.buckets = memFile.buckets]_vars

-----------------------------------------------------------------------------
(* Properties of RecruitingRagService.tokenScore *)

\* the tokens of a text: its longest pieces without a space
TokensOf(s) ==
    { SubSeq(s, i, j) : <<i, j>> \in
        { ij \in (1..Len(s)) \X (1..Len(s)) :
            /\ ij[1] <= ij[2]
            /\ \A k \in ij[1]..ij[2] : s[k] # " "
            /\ (ij[1] = 1 \/ s[ij[1] - 1] = " ")
            /\ (ij[2] = Len(s) \/ s[ij[2] + 1] = " ") } }

TokenScored == fnOut.fn = "tokenScore"

\* two quotients with different values
Differ(x, y) == x.num * y.den # y.num * x.den

\* there are texts whose scores differ with the order of the arguments
SomeAsymmetry == \E a \in TokenTexts, b \in TokenTexts : Differ(tokenScore(a, b), tokenScore(b, a))

\* C23: tokenScore(q, c) is |q \cap c| / |q| for a non-empty token set q and 0
\* for an empty one, lies in [0, 1], is 0 for an empty candidate text, and is
\* not symmetric.
TokenScoreIsOverlapShare ==
    TokenScored =>
        LET q == TokensOf(fnIn.a)
            c == TokensOf(fnIn.b)
            v == fnOut.value
        IN  /\ v.den > 0
            /\ q # {} => v.num * Cardinality(q) = Cardinality(q \cap c) * v.den
            /\ q = {} => v.num = 0
            /\ 0 <= v.num /\ v.num <= v.den
            /\ c = {} => v.num = 0
            /\ SomeAsymmetry

\* a call whose score is 1 one way round and 1/2 the other, with a query
\* token that occurs twice
TokenScoreAsymmetric ==
    /\ TokenScored
    /\ fnIn.a = <<"a", " ", "a">>
    /\ fnIn.b = <<"a", " ", "b">>
    /\ fnOut.value = Quotient(1, 1)
    /\ fnOut.swapped = Quotient(1, 2)
    /\ Differ(fnOut.value, fnOut.swapped)

-----------------------------------------------------------------------------
(* Properties of the scrape requests of searchPublicJobs *)

\* the seed keywords of the retrieval, and the search requests of the scraper
\* answered in it: each searchDuckDuckGo call makes one request
SeedsOfSearch == planTable[sArgs].defaultSeeds
ScrapeRequests == [i \in 1..Len(ddg.byQuery) |-> planTable[sArgs].queries[i]]

\* the number of requests for a seed keyword and a job board
RequestsFor(seed, board) ==
    Cardinality({i \in 1..Len(ScrapeRequests) :
                    ScrapeRequests[i].seed = seed /\ ScrapeRequests[i].source = board})

\* C24 as stated: a retrieval has at most 3 seed keywords and makes one scrape
\* request for each seed keyword and job board: |seeds| x |boards| requests,
\* at most 15.
OneScrapePerSeedAndBoard ==
    (sPc = "done" /\ ~sOut.thrown) =>
        /\ Len(SeedsOfSearch) <= 3
        /\ \A k \in 1..Len(SeedsOfSearch), s \in 1..Len(sources) :
              RequestsFor(SeedsOfSearch[k], sources[s]) = 1
        /\ Len(ScrapeRequests) = Len(SeedsOfSearch) * Len(sources)
        /\ Len(ScrapeRequests) <= 3 * 5

\* C24: a retrieval has at most 3 seed keywords and makes two scrape requests
\* for each seed keyword and job board, one with the word empleo and one with
\* the word jobs: 2 x |seeds| x |boards| requests, at most 30.
TwoScrapesPerSeedAndBoard ==
    (sPc = "done" /\ ~sOut.thrown) =>
        /\ Len(SeedsOfSearch) <= 3
        /\ Len(sources) = 5
        /\ \A k \in 1..Len(SeedsOfSearch), s \in 1..Len(sources) :
              /\ RequestsFor(SeedsOfSearch[k], sources[s]) = 2
              /\ \A word \in {"empleo", "jobs"} :
                    \E i \in 1..Len(ScrapeRequests) :
                        /\ ScrapeRequests[i].seed = SeedsOfSearch[k]
                        /\ ScrapeRequests[i].source = sources[s]
                        /\ ScrapeRequests[i].word = word
        /\ Len(ScrapeRequests) = 2 * Len(SeedsOfSearch) * Len(sources)
        /\ Len(ScrapeRequests) <= 2 * 3 * 5

\* a retrieval with three seed keywords returned after 30 scrape requests
ThirtyScrapeRequests ==
    /\ sPc = "done" /\ ~sOut.thrown
    /\ Len(SeedsOfSearch) = 3
    /\ Len(ScrapeRequests) = 30

-----------------------------------------------------------------------------
(* Properties of concurrent learnFromResults calls *)

\* request r takes a step of a learnFromResults call
LearnStep(r) == memReq[r].op = "learn" /\ memPc'[r] # memPc[r]

\* C25: no step of a learnFromResults call for a bucket changes or discards
\* the stored data of another bucket, also when calls for different buckets
\* run concurrently.
OtherBucketsUntouched ==
    [][\A r \in MemReqs :
          LearnStep(r) =>
              \A key \in DOMAIN memFile.buckets :
                  key # buildBucketKey(memReq[r].country, memReq[r].level) =>
                      /\ key \in DOMAIN memFile'.buckets
                      /\ memFile'.buckets[key] = memFile.buckets[key]]_vars

-----------------------------------------------------------------------------
(* Properties of the feedback bucket of matchJobsByCv *)

\* the country searchPublicJobs resolves for the retrievals of the request
SearchedCountry ==
    planOf(parametersOf(primaryArgs(mReq.dto, mReq.analysis, mReq.learningProfile))).countryText

\* the key of the bucket of the country searched and the level of the request
SearchedKey == buildBucketKey(SearchedCountry, levelText(mReq.analysis.experience.level))

\* the keys of the buckets a step stores or changes
ChangedKeys ==
    {key \in DOMAIN memFile'.buckets :
        key \notin DOMAIN memFile.buckets \/ memFile'.buckets[key] # memFile.buckets[key]}

\* C26: in a matchJobsByCv request the bucket read before the search and the
\* bucket updated after it are the bucket of the country searchPublicJobs
\* resolves for the request, whether country and location are given or not.
BucketOfSearchedCountry ==
    [][/\ (mPc = "getProfile" /\ mPc' = "primarySearch") =>
              mReq'.learningProfile =
                  profileOf(memFile'.buckets, SearchedCountry,
                            levelText(mReq.analysis.experience.level))
       /\ (mPc = "learn" /\ mPc' = "analysis") => ChangedKeys \subseteq {SearchedKey}]_vars

-----------------------------------------------------------------------------
(* Properties of the learning step of matchJobsByCv *)

\* the placeholders of the retrievals of the request
MatchPlaceholders ==
    Range(planOf(parametersOf(primaryArgs(mReq.dto, mReq.analysis, mReq.learningProfile))).fallback)
    \cup Range(planOf(parametersOf(roleDrivenArgs(mReq.dto, mReq.analysis, mReq.learningProfile))).fallback)

\* the learning step of a request whose retrievals found no record of any
\* provider: the list it learns from holds placeholders only
LearnsFromPlaceholders ==
    /\ mPc = "learn" /\ mPc' = "analysis"
    /\ \A i \in 1..Len(mReq.answers) : mReq.answers[i] = "http_error"
    /\ mReq.primarySearch.ranked = <<>>
    /\ mReq'.uniqueJobs # <<>>
    /\ \A i \in 1..Len(mReq'.uniqueJobs) : mReq'.uniqueJobs[i] \in MatchPlaceholders

\* the weights stored under a key, none for a key without bucket
WeightsOf(db, key) ==
    IF key \in DOMAIN db
    THEN [keywordWeights |-> db[key].keywordWeights, sourceWeights |-> db[key].sourceWeights]
    ELSE EmptyProfile

\* C27: when the retrievals of a matchJobsByCv request return placeholders
\* only, its learning step leaves every keyword weight and source weight
\* of every bucket as it was.
PlaceholdersNeverReinforce ==
    [][LearnsFromPlaceholders =>
          \A key \in DOMAIN memFile'.buckets :
              WeightsOf(memFile'.buckets, key) = WeightsOf(memFile.buckets, key)]_vars

-----------------------------------------------------------------------------
(* Properties of the freeUses counter *)

\* request g takes a step of a generateApplication call
GenerateStep(g) == gReq[g].op = "generate" /\ gPc'[g] # gPc[g]

\* the step of incrementFreeUse that writes the counter
IncrementWrite(g) == gReq[g].stage = "increment" /\ gPc[g] = "writeDb"

\* C28: no step of a generateApplication call up to the points where it can
\* end in an error (quota exhausted, text too short, generator failure)
\* changes the freeUses counter of its user, no step of a premium call does,
\* and a free call that no other call overlaps raises it by exactly 1, in its
\* incrementFreeUse.
FreeUsesCountsSuccesses ==
    [][\A g \in GenReqs :
          GenerateStep(g) =>
              LET before == usageOf(usageFile.records, gReq[g].userId)
                  after == usageOf(usageFile'.records, gReq[g].userId)
              IN  /\ gReq[g].stage = "check" => after = before
                  /\ gReq[g].plan = "premium" => after = before
                  /\ (gReq[g].plan = "free" /\ ~gReq[g].overlapped) =>
                         after = before + (IF IncrementWrite(g) THEN 1 ELSE 0)]_vars

-----------------------------------------------------------------------------
(* Properties of RecruitingService.callGeminiWithRetry *)

GeminiCalled == fnOut.fn = "callGeminiWithRetry"
GeminiEnded == GeminiCalled /\ fnOut.state \in {"returned", "thrown"}

\* the calls of the generator made so far: the answered ones and the pending one
GenerateCalls(call) ==
    IF call.fn # "callGeminiWithRetry" THEN 0
    ELSE Len(call.log) + (IF call.state = "generate" THEN 1 ELSE 0)

\* the generator is called once more
AnotherAttempt == GeminiCalled /\ GenerateCalls(fnOut') > GenerateCalls(fnOut)

\* the generator answers
Answered == GeminiCalled /\ Len(fnOut'.log) > Len(fnOut.log)
LastAnswer(call) == call.log[Len(call.log)]

\* C29: callGeminiWithRetry ends, and calls the generator at most maxRetries
\* times; the generator is called again only after a quota error that is not
\* a zero-quota error, in an attempt below maxRetries; a zero-quota error,
\* another error and an empty response end the call with a thrown error, and
\* an ended call calls the generator no more.
RetriesOnlyOnQuotaErrors ==
    /\ [](GenerateCalls(fnOut) <= fnIn.maxRetries)
    /\ [][AnotherAttempt =>
              /\ GenerateCalls(fnOut') = GenerateCalls(fnOut) + 1
              /\ LastAnswer(fnOut).kind = "quota"
              /\ fnOut.attempt < fnIn.maxRetries
              /\ fnOut'.attempt = fnOut.attempt + 1]_vars
    /\ [][(Answered /\ LastAnswer(fnOut').kind \in {"zero_quota", "other", "empty"}) =>
              (fnOut'.state = "thrown" /\ fnOut'.error # "")]_vars
    /\ [][GeminiEnded => fnOut' = fnOut]_vars
    /\ <>(fnIn.fn = "callGeminiWithRetry" => GeminiEnded)

\* a call with maxRetries 3 returned the text of its third attempt, after two
\* quota errors
ReturnedAtThirdAttempt ==
    /\ GeminiCalled /\ fnIn.maxRetries = 3
    /\ fnOut.state = "returned" /\ fnOut.attempt = 3
    /\ Len(fnOut.log) = 3
    /\ fnOut.log[1].kind = "quota" /\ fnOut.log[2].kind = "quota"
    /\ fnOut.log[3].kind = "text"

-----------------------------------------------------------------------------
(* Properties of the stored cases of RecruitingRagService *)

StoredCases == ragReadDb(ragFile)

QualitiesAndTitlesBounded ==
    /\ \A i \in 1..Len(StoredCases.matchCases) :
           StoredCases.matchCases[i].quality \in -50..50
    /\ \A i \in 1..Len(StoredCases.careerPaths) :
           LET pathRow == StoredCases.careerPaths[i]
           IN  /\ pathRow.quality \in -60..60
               /\ Len(pathRow.usefulStepTitles) <= UsefulTitlesCap
               /\ Cardinality(Range(pathRow.usefulStepTitles))
                      = Len(pathRow.usefulStepTitles)

\* the refId names no record of the feedback's type
UnknownRefId(type, refId) ==
    IF type = "match" THEN find(StoredCases.matchCases, refId) = 0
    ELSE find(StoredCases.careerPaths, refId) = 0

\* the step is a registerFeedback call
FeedbackStep == ragOut'.fn = "registerFeedback" /\ ragVars' # ragVars

UnknownFeedbackChangesNothing ==
    (FeedbackStep /\ UnknownRefId(ragOut'.type, ragOut'.refId))
        => /\ ragOut'.updated = FALSE
           /\ ragReadDb(ragFile') = StoredCases

\* C30: in JSON-file mode, with the calls one after another, a match case's
\* quality stays within -5 and 5, a career path's within -6 and 6 with at most
\* 24 usefulStepTitles, all different; and registerFeedback for a refId that
\* names no record returns updated = false and leaves every stored case as it
\* was.
StoredCasesStayBounded ==
    /\ []QualitiesAndTitlesBounded
    /\ [][UnknownFeedbackChangesNothing]_vars

\* both caps reached, and the last feedback named no record
CappedCasesAndUnknownFeedback ==
    /\ ragFile.exists
    /\ \E i \in 1..Len(StoredCases.matchCases) :
           StoredCases.matchCases[i].quality = 50
    /\ \E i \in 1..Len(StoredCases.careerPaths) :
           /\ StoredCases.careerPaths[i].quality = 60
           /\ Len(StoredCases.careerPaths[i].usefulStepTitles) = UsefulTitlesCap
    /\ ragOut.fn = "registerFeedback" /\ ragOut.updated = FALSE

====
